---- MODULE Spec2Model ----
(***************************************************************************)
(* Model of the SQC measurement bench software (hephy-dd/sqc): the         *)
(* sequence orchestrator (sqc/strategy.py), the station facade            *)
(* (sqc/station.py) and the hardware controllers (sqc/controller).        *)
(***************************************************************************)
EXTENDS Integers, Sequences, FiniteSets, TLC

(***************************************************************************)
(* Bounds of the model.                                                    *)
(***************************************************************************)
NumStrips == 5
NumChildren == 2
MaxRemeasure == 1
MaxRecontact == 4
MaxFail == 2
NumWriters == 2

(***************************************************************************)
(* The sequence: one top-level item (Parent) with strip sub-items          *)
(* (Children); strip k is the pad with 0-based padfile index k-1.          *)
(***************************************************************************)
Parent == 0
Children == 1..NumChildren
Items == {Parent} \cup Children
Strips == 1..NumStrips
Writers == 1..NumWriters
\* A failure count that stands for "every time".
Forever == MaxFail + 1

ItemStates == {"Pending", "Ignored", "Active", "Halted", "Success", "Aborted", "Compliance", "Failed"}
FailKinds == {"analysis", "compliance", "hard"}

\* SequenceItem.interval(): sub-item c is measured on every c-th strip.
interval(c) == c

\* SequenceItem.namespace(): the namespace the rows of an item are stored under.
namespace(i) == IF i = Parent THEN 1 ELSE ((i - 1) % 2) + 1

\* ContactHandler.strip_position: the nominal contact position of a strip.
strip_position(strip) == <<100 * strip, 0, 0>>

\* cycle([0, +5, -5, +2, -2]): the recontact x-offsets, in micrometers.
x_offsets == <<0, 5, -5, 2, -2>>

\* next(x_offsets) on the k-th call (k = 0, 1, ...) of one strip.
next_x_offset(k) == x_offsets[(k % Len(x_offsets)) + 1]

VARIABLES
    pc,                 \* position of the orchestrator thread
    params,             \* context.parameters and the loaded sequence
    plan,               \* behaviour of the bench: which measurement fails, how, how often
    nmeas,              \* measurements of the planned (strip, item) made so far
    abort,              \* context._abort_event
    state,              \* state of every sequence item
    strip,              \* handle_strip_items: index of the current strip
    attempt,            \* handle_strip_items: contact attempt on the current strip
    position,           \* handle_strip_items: local variable position
    sidx,               \* handle_strip_items: index into strip_items
    result,             \* handle_strip_items: local variable result
    rtry,               \* auto_repeat_measurement: local variable attempt
    hidx,               \* handle_before/after_sequence: index of the next hook
    remeasure_counter,  \* Statistics.remeasure_counter
    recontact_counter,  \* Statistics.recontact_counter
    data,               \* context.data: namespaces holding rows, in insertion order
    contacted,          \* the table is at contact height under the needles
    opened,             \* the station resources are open
    caught,             \* exception caught inside handle_sequence ("none" if none)
    finalizeError,      \* exception raised by controller.finalize, caught by __call__
    escaped,            \* exception that left __call__ ("none" if none)
    entered,            \* handle_sequence was entered
    moves,              \* positions passed to safe_move_table on the current strip
    contactMeas,        \* outcomes of run_measurement for the current sub-item and contact
    tripped,            \* <<strip, item>> whose measurement raised ComplianceError, or <<>>
    afterTrip,          \* measurements and contact moves made on tripped after the trip
    stationFinalize,    \* steps of Station.finalize executed, per call
    ctrlFinalize,       \* calls of SequenceController.finalize
    writerLog,          \* <<namespace, writer>> of every writer invocation
    suspend             \* context._suspend_event is set

runVars == <<pc, params, plan, suspend, nmeas, abort, state, strip, attempt, position,
             sidx, result, rtry, hidx, remeasure_counter, recontact_counter, data,
             contacted, opened, caught, finalizeError, escaped, entered, moves,
             contactMeas, tripped, afterTrip, stationFinalize, ctrlFinalize, writerLog>>

VARIABLES
    dpc,                \* CapacitorDischarge.__call__: position
    relay,              \* environment box: the discharge relay is asserted
    smu_route_terminal, \* smu.route_terminal
    smu_function,       \* smu.function
    smu_output,         \* smu.output is ON
    charge,             \* voltage left on the decoupling capacitor, in threshold units
    polls,              \* check_discharged_state calls made (the timer t)
    success,            \* CapacitorDischarge.__call__: local variable success
    dexit               \* how __call__ was left: "none", "returned", "raised"

dischargeVars == <<dpc, relay, smu_route_terminal, smu_function, smu_output, charge,
                   polls, success, dexit>>

VARIABLES
    spc,                \* hv/lv_switch_apply: position
    switch,             \* the matrix the call is about: "hv_switch" or "lv_switch"
    closed_channels,    \* the channels the matrix has closed
    channels,           \* argument of the call: the channels wanted closed
    stuck,              \* relays of the matrix that do not respond
    closed0,            \* closed_channels when the call was made
    calls,              \* the open_channels/close_channels calls issued, in order
    sexit               \* how the call was left: "none", "returned", "raised"

switchVars == <<spc, switch, closed_channels, channels, stuck, closed0, calls, sexit>>

VARIABLES
    gui,                \* where the GUI thread is
    ctl,                \* per controller: state of its worker thread
    queue,              \* per controller: requests waiting in _queue
    busy,               \* per thread: the link it is issuing a command to, or "none"
    insp,               \* InspectionWidget.worker thread: position
    stopRequested,      \* InspectionWidget._stopRequested
    run                 \* measurement run: "idle", "requested", "running"

ownVars == <<gui, ctl, queue, busy, insp, stopRequested, run>>

VARIABLES
    mailbox,            \* per controller: the items waiting in _queue, oldest first
    request,            \* per Request: controller, callable, progress, captured outcome
    nreq,               \* Requests created so far; a Request is named by its number
    wstate,             \* per controller: position of its worker thread
    link,               \* per controller: the resource of the worker is open
    stop,               \* per controller: _shutdown is set
    cur,                \* per controller: the item the worker is executing, 0 if none
    faults,             \* failures of the hardware links so far
    order,              \* Requests in the order their execution started
    gets,               \* the calls of Request.get that returned: who, on what, what they saw
    logged,             \* Requests whose error was logged by the worker
    emitted,            \* Requests whose error was emitted with the failed signal
    caughtOpen          \* controllers that caught an exception and kept the resource open

reqVars == <<mailbox, request, nreq, wstate, link, stop, cur, faults, order, gets,
             logged, emitted, caughtOpen>>

VARIABLES
    step,               \* requestCalibrate: steps passed
    variant,            \* the Table class in use: "position" (sqc) or "status" (src/sqc)
    op,                 \* the operation called on the Table
    tpc,                \* position inside the operation
    ret,                \* wait_movement_finished: where to continue afterwards
    dest,               \* argument of safe_move_absolute
    origin,             \* table hardware: where the movement in progress started
    target,             \* table hardware: where the movement in progress ends
    progress,           \* table hardware: steps of the movement made
    jammed,             \* table hardware: the movement never comes to rest
    caldone,            \* table hardware: caldone of each axis
    abortRequested,     \* TableController.abortRequested
    skipped,            \* requestCalibrate: a step was skipped because of abortRequested
    poslist,            \* wait_movement_finished: the list pos
    samples,            \* positions read by the current wait, in order
    sleeps,             \* time.sleep(poll_interval) calls of the current wait
    emits,              \* position_changed calls of the current wait
    elapsed,            \* t.delta() of the current wait, in poll intervals
    cmds,               \* movement commands sent to the table, in order
    texit,              \* how the operation was left: "none", "returned", "timeout", "raised"
    progressChanged,    \* progressChanged emissions: <<value, maximum, steps called before>>
    called,             \* the steps of the calibration that were called, in order
    movementFinished    \* movementFinished emissions of the request

calVars == <<progressChanged, called, movementFinished>>

tableVars == <<step, variant, op, tpc, ret, dest, origin, target, progress, jammed, caldone,
               abortRequested, skipped, poslist, samples, sleeps, emits, elapsed, cmds, texit,
               calVars>>

VARIABLES
    rpc,                \* smu/bias_ramp_voltage: position
    source,             \* the source that is ramped: "smu" or "bias_smu"
    voltage_level,      \* the source: voltage_level
    voltage_range,      \* the source: voltage_range
    voltage_begin,      \* local of the ramp: the level read at the start
    voltage_end,        \* argument of the ramp
    voltage_step,       \* argument of the ramp
    ramp_values,               \* the values of voltage_range (the LinearRange) not yet applied
    range0,             \* voltage_range of the source when the ramp was called
    applied,            \* the levels applied, each with the range configured then
    rexit               \* how the ramp was left: "none", "returned", "raised"

rampVars == <<rpc, source, voltage_level, voltage_range, voltage_begin, voltage_end,
              voltage_step, ramp_values, range0, applied, rexit>>

VARIABLES
    ipc,                \* safe_initialize: number of the step to run next
    ran,                \* safe_initialize: the steps called, in order
    instr,              \* the bench: what safe_initialize finds and leaves
    iexit               \* how safe_initialize was left: "none", "returned", "raised"

safeVars == <<ipc, ran, instr, iexit>>

VARIABLES
    ppc,                \* reset_sequence and calculate_strip_pattern: position
    enabled,            \* per item of the sequence: isEnabled()
    intervals,          \* per strip sub-item: interval()
    strips_expr,        \* item.strips(): the ranges <<first, last>> of the expression
    item_state,         \* per item: its state
    pattern             \* what calculate_strip_pattern returned: <<strip, sub-items>>, in order

patVars == <<ppc, enabled, intervals, strips_expr, item_state, pattern>>

VARIABLES
    sthread,            \* SequenceController._thread is set (not None)
    jrun,               \* the orchestrator thread (SequenceController.run): position
    jshut,              \* the caller of SequenceController.shutdown: position
    jabort,             \* context._abort_event, as set by shutdown
    jfailed,            \* the failed signal was emitted by run
    cstop,              \* TableController._shutdown is set
    cworker,            \* the worker thread of the TableController: position
    cshut               \* the caller of TableController.shutdown: position

joinVars == <<sthread, jrun, jshut, jabort, jfailed, cstop, cworker, cshut>>

VARIABLES
    slock,              \* EnvironController._lock: "free" or the thread holding it
    heap,               \* the dictionaries: self._data and the copy snapshot returns
    sref,               \* the dictionary the caller of snapshot holds (0: none)
    rdpc,               \* the caller of snapshot: position
    rkeys,              \* deepcopy: the keys still to copy
    changed_data,       \* dataChanged: the emitted data not yet delivered to the slot
    gpc,                \* the slot _pc_data_available: position
    gkeys,              \* dict.update: the keys still to write
    wkpc,               \* the worker thread of the EnvironController: position
    refreshes           \* the number of get_data calls so far

snapVars == <<slock, heap, sref, rdpc, rkeys, changed_data, gpc, gkeys, wkpc, refreshes>>

VARIABLES
    cdata,              \* Context._data: the row list of each stored (namespace, type, name)
    ninserts,           \* the number of insert_data calls so far
    latest              \* history: the timestamp of the latest row given for each key and sortkey

insVars == <<cdata, ninserts, latest>>

lateVars == <<snapVars, insVars>>

\* The parts of the bench modelled one operation at a time.
benchVars == <<dischargeVars, switchVars, ownVars, reqVars, tableVars>>

moreVars == <<rampVars, safeVars, patVars, joinVars, lateVars>>

subVars == <<dischargeVars, switchVars, ownVars, reqVars, tableVars, moreVars>>

vars == <<runVars, subVars>>

(***************************************************************************)
(* Inputs of a run.                                                        *)
(***************************************************************************)
\* What validate_item and validate_strip_item can find wrong in the sequence:
\* a strips expression parse_strips rejects, a sub-item interval < 1, or
\* parameters validate_parameters rejects.
Defects == {"none", "strips", "interval", "parameters"}

\* context.parameters and the sequence, as set before the run is started:
\* children 1..nchildren are enabled, the others are disabled.
ParamSpace ==
    [remeasure_count : 0..MaxRemeasure,
     recontact_count : {0, 1, MaxRecontact},
     nchildren : 1..NumChildren,
     padfile : BOOLEAN,
     output_path : BOOLEAN,
     operator_name : BOOLEAN,
     defect : Defects]

\* The bench: the measurement of plan.item (on plan.strip, for a sub-item)
\* fails plan.count times (Forever: every time) with plan.kind, then succeeds.
NoPlan == [item |-> Parent, strip |-> 1, kind |-> "analysis", count |-> 0]

\* The strips a failure is planned on (the first one and strip 3).
FailStrips == {1, 3}

\* Only AnalysisError lets a measurement be made again, so only it is counted.
PlanSpace ==
    {NoPlan} \cup
    {p \in [item : Items, strip : FailStrips, kind : FailKinds,
            count : (1..MaxFail) \cup {Forever}] :
        /\ p.kind # "analysis" => p.count = 1
        /\ p.item = Parent => p.strip = 1}

\* SequenceStrategy.remeasure_attempts
remeasure_attempts == params.remeasure_count

\* SequenceStrategy.recontact_attempts
recontact_attempts == params.recontact_count

\* SequenceItem.isEnabled()
isEnabled(i) == i = Parent \/ i <= params.nchildren

\* enabled_items(item.allChildren())
enabled_strip_items == [c \in 1..params.nchildren |-> c]

\* SequenceStrategy.calculate_strip_pattern: the sub-items measured on a strip.
strip_items(s) == SelectSeq(enabled_strip_items, LAMBDA c : (s - 1) % interval(c) = 0)

\* The keys of calculate_strip_pattern's dictionary, in padfile order.
selected_strips == SelectSeq([k \in 1..NumStrips |-> k], LAMBDA s : Len(strip_items(s)) > 0)

\* A reset_item_state that does not look at the parent.
reset_state_own(en, i) == IF en[i] THEN "Pending" ELSE "Ignored"

\* SequenceStrategy.reset_item_state, lines 241-248, for the items enabled as
\* en says: a sub-item of a disabled item is Ignored.
reset_state(en, i) ==
    IF i # Parent /\ ~en[Parent]
    THEN "Ignored"
    ELSE IF en[i] THEN "Pending" ELSE "Ignored"

\* SequenceStrategy.reset_item_state in a run: the item that is measured is
\* enabled.
reset_item_state(i) == reset_state([j \in Items |-> isEnabled(j)], i)

\* SequenceStrategy.validate_sequence (and calculate_positions before it)
\* A validate_strip_item that does not look at the interval.
validate_sequence_any_interval ==
    /\ params.padfile /\ params.output_path /\ params.operator_name
    /\ params.defect \in {"none", "interval"}

validate_sequence ==
    /\ params.padfile /\ params.output_path /\ params.operator_name
    /\ params.defect = "none"

\* Statistics.increment_remeasure_counter / increment_recontact_counter
increment(counter, s, name) == [counter EXCEPT ![s][name] = @ + 1]

\* Context.insert_data: the namespace is created on the first row.
\* A safe_recover_table that moves nothing.
safe_recover_table_ignored(o, c) == c

\* SequenceController.safe_recover_table: whether the table is still at
\* contact height after the call, c telling whether it was before; o names
\* what raised ("safe_recover_table": the relative move down itself).
safe_recover_table(o, c) == IF o = "safe_recover_table" THEN c ELSE FALSE

insert_data(d, ns) == IF \E k \in 1..Len(d) : d[k] = ns THEN d ELSE Append(d, ns)

\* The strip and the sub-item the orchestrator is working on.
CurStrip == selected_strips[strip]
CurItem == strip_items(CurStrip)[sidx]

\* Whether the bench makes the next measurement of item i (on strip s) fail.
Planned(i, s) ==
    /\ plan.count # 0
    /\ plan.item = i
    /\ (i = Parent \/ plan.strip = s)
    /\ (plan.count = Forever \/ nmeas < plan.count)

\* SequenceStrategy.run_measurement: how one measurement can end.  "aborted"
\* is AbortRequested raised inside the measurement, which is swallowed.
run_measurement(i, s) ==
    (IF Planned(i, s) THEN {plan.kind} ELSE {"ok"}) \cup (IF abort THEN {"aborted"} ELSE {})

\* Rows reach context.data before the range check that raises AnalysisError.
InsertsData(o) == o \in {"ok", "analysis"}

\* A handle_strip_item that answers ComplianceError like a failed remeasurement.
handle_strip_item_recontact(ended, aborting) ==
    CASE ended = "returned" ->
            [state |-> IF aborting THEN "Aborted" ELSE "Success", exit |-> "return"]
      [] ended = "compliance" ->
            [state |-> "Compliance", exit |-> "return"]
      [] OTHER ->
            [state |-> "Failed", exit |-> ended]

\* handle_strip_item: the state it gives the sub-item and how it leaves, given
\* how auto_repeat_measurement ended ("returned", or the exception it raised).
\* After ComplianceError the local variable result is unbound, and
\* `return result` raises UnboundLocalError.
handle_strip_item(ended, aborting) ==
    CASE ended = "returned" ->
            [state |-> IF aborting THEN "Aborted" ELSE "Success", exit |-> "return"]
      [] ended = "compliance" ->
            [state |-> "Compliance", exit |-> "UnboundLocalError"]
      [] OTHER ->
            [state |-> "Failed", exit |-> ended]

\* An auto_repeat_measurement that also catches ComplianceError.
\* An auto_repeat_measurement that also catches the other exceptions.
repeats_hard(o) == o \in {"analysis", "hard"}

repeats_compliance(o) == o \in {"analysis", "compliance"}

\* auto_repeat_measurement: `except AnalysisError: continue`
repeats(o) == o = "analysis"

\* An auto_repeat_measurement with range(attempts + 2).
has_next_attempt_more(k) == k <= remeasure_attempts

\* auto_repeat_measurement: range(attempts + 1) has another iteration after rtry.
has_next_attempt(k) == k < remeasure_attempts

\* handle_strip_items: range(self.recontact_attempts + 1) has another iteration.
has_next_contact(k) == k < recontact_attempts

\* handle_strip_items, lines 427-430: the position of the next contact try.
next_position(pos, k) == <<pos[1] + next_x_offset(k), pos[2], pos[3]>>

\* Station.finalize, in order.
finalize_steps ==
    <<"safe_recover_smu", "safe_recover_bias_smu", "hv_switch_release",
      "lv_switch_release", "safe_discharge", "close_resources">>

\* A serialize_data that invokes every writer once, whatever the data.
writer_calls_once(d) == [w \in 1..NumWriters |-> <<1, w>>]

\* serialize_data: the writer invocations it would make, in order.
RECURSIVE writer_calls(_)
writer_calls(d) ==
    IF d = <<>> THEN <<>>
    ELSE [w \in 1..NumWriters |-> <<Head(d), w>>] \o writer_calls(Tail(d))

\* The locals and the bookkeeping before a run.
RunAtStart ==
    /\ pc = "idle"
    /\ nmeas = 0
    /\ abort = FALSE
    /\ suspend = FALSE
    /\ state = [i \in Items |-> "Pending"]
    /\ strip = 1
    /\ attempt = 0
    /\ position = <<0, 0, 0>>
    /\ sidx = 1
    /\ result = TRUE
    /\ rtry = 0
    /\ hidx = 0
    /\ remeasure_counter = [s \in Strips |-> [i \in Items |-> 0]]
    /\ recontact_counter = [s \in Strips |-> [i \in Items |-> 0]]
    /\ contacted = FALSE
    /\ opened = {}
    /\ caught = "none"
    /\ finalizeError = "none"
    /\ escaped = "none"
    /\ entered = FALSE
    /\ moves = <<>>
    /\ contactMeas = <<>>
    /\ tripped = <<>>
    /\ afterTrip = 0
    /\ stationFinalize = <<>>
    /\ ctrlFinalize = 0
    /\ writerLog = <<>>

\* A run is about to be started: any parameters, any bench behaviour, and
\* possibly data of an earlier run still in the context.
InitRun ==
    /\ params \in ParamSpace
    /\ plan \in PlanSpace
    /\ (~validate_sequence => plan = NoPlan /\ params.remeasure_count = 0
                              /\ params.recontact_count = 0 /\ params.nchildren = 1)
    /\ plan.item <= params.nchildren
    /\ data \in {<<>>, <<2>>}
    /\ data # <<>> => plan = NoPlan
    /\ RunAtStart

\* No run is going on.
NoRun ==
    /\ params = [remeasure_count |-> 0, recontact_count |-> 0, nchildren |-> 1,
                 padfile |-> TRUE, output_path |-> TRUE, operator_name |-> TRUE,
                 defect |-> "none"]
    /\ plan = NoPlan
    /\ data = <<>>
    /\ RunAtStart

(***************************************************************************)
(* The orchestrator thread: SequenceStrategy.__call__.                     *)
(***************************************************************************)
\* handle_sequence, `except Exception`: the exception is reported and the
\* finally clause runs controller.finalize.
Raise(kind) ==
    /\ pc' = "finalize"
    /\ caught' = kind

\* __call__, lines 143-146: positions, measurements, reset and validation,
\* all before the try block.  calculate_positions raises without a padfile,
\* create_measurements on invalid parameters of an enabled item, both before
\* reset_sequence.
Call ==
    /\ pc = "idle"
    /\ IF ~params.padfile
       THEN /\ pc' = "done"
            /\ escaped' = "ValueError"
            /\ state' = state
       ELSE IF params.defect = "parameters"
       THEN /\ pc' = "done"
            /\ escaped' = "KeyError"
            /\ state' = state
       ELSE /\ state' = [i \in Items |-> reset_item_state(i)]
            /\ IF validate_sequence
               THEN pc' = "initialize" /\ escaped' = escaped
               ELSE /\ pc' = "done"
                    /\ escaped' = IF params.output_path /\ params.operator_name
                                     /\ params.defect = "interval"
                                  THEN "KeyError" ELSE "ValueError"
    /\ UNCHANGED <<params, plan, suspend, nmeas, abort, strip, attempt, position, sidx, result,
                   rtry, hidx, remeasure_counter, recontact_counter, data, contacted,
                   opened, caught, finalizeError, entered, moves, contactMeas, tripped,
                   afterTrip, stationFinalize, ctrlFinalize, writerLog>>
    /\ UNCHANGED subVars

\* SequenceController.initialize: open_resources, safe_initialize,
\* table_configure, safe_recover_table; each can raise.
Initialize ==
    /\ pc = "initialize"
    /\ entered' = TRUE
    /\ \E o \in {"ok", "open_instruments", "open_table", "safe_initialize", "table"} :
        /\ opened' = CASE o = "open_instruments" -> {}
                       [] o = "open_table" -> {"instruments"}
                       [] OTHER -> {"instruments", "table"}
        /\ IF o = "ok"
           THEN pc' = "before_sequence" /\ hidx' = 0 /\ caught' = caught
           ELSE Raise(o) /\ hidx' = hidx
    /\ UNCHANGED <<params, plan, suspend, nmeas, abort, state, strip, attempt, position, sidx,
                   result, rtry, remeasure_counter, recontact_counter, data, contacted,
                   finalizeError, escaped, moves, contactMeas, tripped,
                   afterTrip, stationFinalize, ctrlFinalize, writerLog>>
    /\ UNCHANGED subVars

\* The sub-item handle_abort marks when abort is seen before hook h.
HookAborted(h) == IF h = 0 THEN {Parent} ELSE {Parent, IF h = 1 THEN 1 ELSE h - 1}

\* handle_before_sequence: one hook per step, abort checked around each.
BeforeSequence ==
    /\ pc = "before_sequence"
    /\ IF abort
       THEN /\ state' = [i \in Items |-> IF i \in HookAborted(hidx) THEN "Aborted" ELSE state[i]]
            /\ pc' = "item_begin"
            /\ UNCHANGED <<hidx, caught>>
       ELSE IF hidx > params.nchildren
       THEN /\ pc' = "item_begin"
            /\ UNCHANGED <<state, hidx, caught>>
       ELSE \E o \in {"ok", "before_sequence"} :
            /\ state' = state
            /\ IF o = "ok"
               THEN pc' = pc /\ hidx' = hidx + 1 /\ caught' = caught
               ELSE Raise(o) /\ hidx' = hidx
    /\ UNCHANGED <<params, plan, suspend, nmeas, abort, strip, attempt, position, sidx, result,
                   rtry, remeasure_counter, recontact_counter, data, contacted,
                   opened, finalizeError, escaped, entered, moves, contactMeas, tripped,
                   afterTrip, stationFinalize, ctrlFinalize, writerLog>>
    /\ UNCHANGED subVars

\* handle_sequence, lines 331-339, and handle_sequence_item, lines 354-358.
\* handle_suspend, lines 275-277: on a suspend request the item is set Halted
\* and the thread enters Context.handle_suspend.
ItemBegin ==
    /\ pc \in {"item_begin", "item_resumed"}
    /\ IF pc = "item_begin" /\ suspend
       THEN /\ state' = [state EXCEPT ![Parent] = "Halted"]
            /\ pc' = "item_suspended"
       ELSE IF abort
       THEN /\ state' = [state EXCEPT ![Parent] = "Aborted"]
            /\ pc' = "finalize"
       ELSE /\ state' = [state EXCEPT ![Parent] = "Active"]
            /\ pc' = "item_measure"
    /\ UNCHANGED <<params, plan, suspend, nmeas, abort, strip, attempt, position, sidx, result,
                   rtry, hidx, remeasure_counter, recontact_counter, data, contacted,
                   opened, caught, finalizeError, escaped, entered, moves, contactMeas,
                   tripped, afterTrip, stationFinalize, ctrlFinalize, writerLog>>
    /\ UNCHANGED subVars

\* handle_sequence_item, lines 362-374: the measurement of the top-level item.
ItemMeasure ==
    /\ pc = "item_measure"
    /\ \E o \in run_measurement(Parent, 0) :
        /\ nmeas' = IF plan.count # 0 /\ plan.item = Parent THEN nmeas + 1 ELSE nmeas
        /\ data' = IF InsertsData(o) THEN insert_data(data, namespace(Parent)) ELSE data
        /\ CASE o \in {"ok", "aborted"} ->
                  /\ caught' = caught
                  /\ IF abort
                     THEN state' = [state EXCEPT ![Parent] = "Aborted"] /\ pc' = "item_after"
                     ELSE state' = state /\ pc' = "strip_begin"
             [] o = "compliance" ->
                  /\ state' = [state EXCEPT ![Parent] = "Compliance"]
                  /\ pc' = "item_after"
                  /\ caught' = caught
             [] OTHER ->
                  /\ state' = [state EXCEPT ![Parent] = "Failed"]
                  /\ Raise(o)
    /\ strip' = 1
    /\ UNCHANGED <<params, plan, suspend, abort, attempt, position, sidx, result,
                   rtry, hidx, remeasure_counter, recontact_counter, contacted,
                   opened, finalizeError, escaped, entered, moves, contactMeas,
                   tripped, afterTrip, stationFinalize, ctrlFinalize, writerLog>>
    /\ UNCHANGED subVars

\* handle_strip_items, lines 394-415: the next strip of the pattern.  On a
\* suspend request (line 400) the item is set Halted and the thread enters
\* Context.handle_suspend.
StripBegin ==
    /\ pc \in {"strip_begin", "strip_resumed"}
    /\ IF strip > Len(selected_strips)
       THEN /\ pc' = "item_finish"
            /\ UNCHANGED <<state, attempt, position, moves>>
       ELSE IF pc = "strip_begin" /\ suspend
       THEN /\ state' = [state EXCEPT ![Parent] = "Halted"]
            /\ pc' = "strip_suspended"
            /\ UNCHANGED <<attempt, position, moves>>
       ELSE /\ state' = [i \in Items |->
                            IF i = Parent THEN "Active"
                            ELSE IF \E k \in 1..Len(strip_items(CurStrip)) : strip_items(CurStrip)[k] = i
                                 THEN reset_item_state(i)
                                 ELSE "Ignored"]
            /\ attempt' = 0
            /\ position' = strip_position(CurStrip)
            /\ moves' = <<>>
            /\ pc' = "contact"
    /\ UNCHANGED <<params, plan, suspend, nmeas, abort, strip, sidx, result,
                   rtry, hidx, remeasure_counter, recontact_counter, data, contacted,
                   opened, caught, finalizeError, escaped, entered, contactMeas,
                   tripped, afterTrip, stationFinalize, ctrlFinalize, writerLog>>
    /\ UNCHANGED subVars

\* handle_strip_items, lines 417-438: one contact try (before_strip and the
\* table move can raise).
Contact ==
    /\ pc = "contact"
    /\ result' = TRUE
    /\ recontact_counter' = IF attempt > 0
                            THEN increment(recontact_counter, CurStrip, Parent)
                            ELSE recontact_counter
    /\ position' = next_position(position, attempt)
    /\ afterTrip' = IF tripped # <<>> /\ tripped[1] = CurStrip THEN afterTrip + 1 ELSE afterTrip
    /\ \E o \in {"ok", "before_strip", "safe_move_table"} :
        /\ moves' = IF o = "before_strip" THEN moves ELSE Append(moves, position')
        /\ contacted' = IF o = "before_strip" THEN contacted ELSE TRUE
        /\ IF o = "ok"
           THEN pc' = "strip_item" /\ sidx' = 1 /\ caught' = caught
           ELSE Raise(o) /\ sidx' = sidx
    /\ UNCHANGED <<params, plan, suspend, nmeas, abort, state, strip, attempt,
                   rtry, hidx, remeasure_counter, data,
                   opened, finalizeError, escaped, entered, contactMeas,
                   tripped, stationFinalize, ctrlFinalize, writerLog>>
    /\ UNCHANGED subVars

\* handle_strip_items, lines 441-446, and handle_strip_item, lines 475-478.
StripItem ==
    /\ pc = "strip_item"
    /\ IF sidx > Len(strip_items(CurStrip))
       THEN /\ pc' = "recover"
            /\ UNCHANGED <<state, rtry, contactMeas>>
       ELSE IF abort
       THEN /\ state' = [state EXCEPT ![CurItem] = "Aborted"]
            /\ pc' = "recover"
            /\ UNCHANGED <<rtry, contactMeas>>
       ELSE /\ state' = [state EXCEPT ![CurItem] = "Active"]
            /\ rtry' = 0
            /\ contactMeas' = <<>>
            /\ pc' = "measure"
    /\ UNCHANGED <<params, plan, suspend, nmeas, abort, strip, attempt, position, sidx, result,
                   hidx, remeasure_counter, recontact_counter, data, contacted,
                   opened, caught, finalizeError, escaped, entered, moves,
                   tripped, afterTrip, stationFinalize, ctrlFinalize, writerLog>>
    /\ UNCHANGED subVars

\* auto_repeat_measurement, one iteration of its loop, and the rest of
\* handle_strip_item once the loop is left.
Measure ==
    /\ pc = "measure"
    /\ remeasure_counter' = IF rtry > 0
                            THEN increment(remeasure_counter, CurStrip, CurItem)
                            ELSE remeasure_counter
    /\ afterTrip' = IF tripped = <<CurStrip, CurItem>> THEN afterTrip + 1 ELSE afterTrip
    /\ \E o \in run_measurement(CurItem, CurStrip) :
        /\ contactMeas' = Append(contactMeas, o)
        /\ nmeas' = IF plan.count # 0 /\ plan.item = CurItem /\ plan.strip = CurStrip
                    THEN nmeas + 1 ELSE nmeas
        /\ data' = IF InsertsData(o) THEN insert_data(data, namespace(CurItem)) ELSE data
        /\ IF repeats(o) /\ has_next_attempt(rtry)
           THEN /\ rtry' = rtry + 1
                /\ pc' = pc
                /\ UNCHANGED <<state, result, tripped, caught>>
           ELSE LET ended == IF o \in {"ok", "aborted"} \/ repeats(o) THEN "returned" ELSE o
                    h == handle_strip_item(ended, abort)
                IN  /\ state' = [state EXCEPT ![CurItem] = h.state]
                    /\ tripped' = IF o = "compliance" THEN <<CurStrip, CurItem>> ELSE tripped
                    /\ rtry' = rtry
                    /\ IF h.exit = "return"
                       THEN /\ result' = (o \in {"ok", "aborted"})
                            /\ pc' = "strip_item_post"
                            /\ caught' = caught
                       ELSE /\ result' = result
                            /\ Raise(h.exit)
    /\ UNCHANGED <<params, plan, suspend, abort, strip, attempt, position, sidx,
                   hidx, recontact_counter, contacted,
                   opened, finalizeError, escaped, entered, moves,
                   stationFinalize, ctrlFinalize, writerLog>>
    /\ UNCHANGED subVars

\* handle_strip_items, lines 448-453.
StripItemPost ==
    /\ pc = "strip_item_post"
    /\ IF abort
       THEN /\ state' = [state EXCEPT ![CurItem] = "Aborted"]
            /\ pc' = "recover"
            /\ sidx' = sidx
       ELSE /\ state' = state
            /\ IF ~result
               THEN pc' = "recover" /\ sidx' = sidx
               ELSE pc' = "strip_item" /\ sidx' = sidx + 1
    /\ UNCHANGED <<params, plan, suspend, nmeas, abort, strip, attempt, position, result,
                   rtry, hidx, remeasure_counter, recontact_counter, data, contacted,
                   opened, caught, finalizeError, escaped, entered, moves, contactMeas,
                   tripped, afterTrip, stationFinalize, ctrlFinalize, writerLog>>
    /\ UNCHANGED subVars

\* handle_strip_items, lines 455-460: retract the table, after_strip, and
\* leave the contact loop or go on with the next try.
Recover ==
    /\ pc = "recover"
    /\ \E o \in {"ok", "safe_recover_table", "after_strip"} :
        /\ contacted' = safe_recover_table(o, contacted)
        /\ IF o = "ok"
           THEN /\ caught' = caught
                /\ IF ~result /\ has_next_contact(attempt)
                   THEN pc' = "contact" /\ attempt' = attempt + 1
                   ELSE pc' = "strip_end" /\ attempt' = attempt
           ELSE Raise(o) /\ attempt' = attempt
    /\ UNCHANGED <<params, plan, suspend, nmeas, abort, state, strip, position, sidx, result,
                   rtry, hidx, remeasure_counter, recontact_counter, data,
                   opened, finalizeError, escaped, entered, moves, contactMeas,
                   tripped, afterTrip, stationFinalize, ctrlFinalize, writerLog>>
    /\ UNCHANGED subVars

\* handle_strip_items, lines 462-471.
StripEnd ==
    /\ pc = "strip_end"
    /\ IF abort
       THEN /\ state' = [state EXCEPT ![Parent] = "Aborted"]
            /\ pc' = "item_finish"
            /\ strip' = strip
       ELSE /\ state' = state
            /\ pc' = "strip_begin"
            /\ strip' = strip + 1
    /\ UNCHANGED <<params, plan, suspend, nmeas, abort, attempt, position, sidx, result,
                   rtry, hidx, remeasure_counter, recontact_counter, data, contacted,
                   opened, caught, finalizeError, escaped, entered, moves, contactMeas,
                   tripped, afterTrip, stationFinalize, ctrlFinalize, writerLog>>
    /\ UNCHANGED subVars

\* handle_sequence_item, lines 378-385.
ItemFinish ==
    /\ pc = "item_finish"
    /\ state' = [state EXCEPT ![Parent] = IF abort THEN "Aborted" ELSE "Success"]
    /\ pc' = "item_after"
    /\ UNCHANGED <<params, plan, suspend, nmeas, abort, strip, attempt, position, sidx, result,
                   rtry, hidx, remeasure_counter, recontact_counter, data, contacted,
                   opened, caught, finalizeError, escaped, entered, moves, contactMeas,
                   tripped, afterTrip, stationFinalize, ctrlFinalize, writerLog>>
    /\ UNCHANGED subVars

\* handle_sequence, lines 341-345.
ItemAfter ==
    /\ pc = "item_after"
    /\ hidx' = 0
    /\ IF abort
       THEN /\ state' = [state EXCEPT ![Parent] = "Aborted"]
            /\ pc' = "finalize"
       ELSE /\ state' = state
            /\ pc' = "after_sequence"
    /\ UNCHANGED <<params, plan, suspend, nmeas, abort, strip, attempt, position, sidx, result,
                   rtry, remeasure_counter, recontact_counter, data, contacted,
                   opened, caught, finalizeError, escaped, entered, moves, contactMeas,
                   tripped, afterTrip, stationFinalize, ctrlFinalize, writerLog>>
    /\ UNCHANGED subVars

\* handle_after_sequence: one hook per step, abort checked around each.
AfterSequence ==
    /\ pc = "after_sequence"
    /\ IF abort
       THEN /\ state' = [i \in Items |-> IF i \in HookAborted(hidx) THEN "Aborted" ELSE state[i]]
            /\ pc' = "finalize"
            /\ UNCHANGED <<hidx, caught>>
       ELSE IF hidx > params.nchildren
       THEN /\ pc' = "finalize"
            /\ UNCHANGED <<state, hidx, caught>>
       ELSE \E o \in {"ok", "after_sequence"} :
            /\ state' = state
            /\ IF o = "ok"
               THEN pc' = pc /\ hidx' = hidx + 1 /\ caught' = caught
               ELSE Raise(o) /\ hidx' = hidx
    /\ UNCHANGED <<params, plan, suspend, nmeas, abort, strip, attempt, position, sidx, result,
                   rtry, remeasure_counter, recontact_counter, data, contacted,
                   opened, finalizeError, escaped, entered, moves, contactMeas, tripped,
                   afterTrip, stationFinalize, ctrlFinalize, writerLog>>
    /\ UNCHANGED subVars

\* SequenceController.finalize, called from handle_sequence's finally clause:
\* safe_recover_table, then station.finalize, then box_set_test_running.
\* An exception here leaves handle_sequence and is caught by __call__.
\* n is the number of steps of Station.finalize that ran to their end.
\* The frames of handle_sequence are left: their locals are gone.
Finalize ==
    /\ pc = "finalize"
    /\ ctrlFinalize' = ctrlFinalize + 1
    /\ pc' = "serialize"
    /\ \E o \in {"ok", "safe_recover_table", "station.finalize", "box_set_test_running"} :
       \E n \in 0..Len(finalize_steps) :
        /\ "table" \notin opened => o = "safe_recover_table"
        /\ (o = "station.finalize") = (o # "safe_recover_table" /\ n < Len(finalize_steps))
        /\ o = "safe_recover_table" => n = 0
        /\ contacted' = safe_recover_table(o, contacted)
        /\ stationFinalize' = IF o = "safe_recover_table"
                              THEN stationFinalize
                              ELSE Append(stationFinalize, SubSeq(finalize_steps, 1, n))
        /\ opened' = IF o # "safe_recover_table" /\ n = Len(finalize_steps) THEN {} ELSE opened
        /\ finalizeError' = IF o = "ok" THEN finalizeError ELSE o
    /\ strip' = 1 /\ attempt' = 0 /\ position' = <<0, 0, 0>> /\ sidx' = 1
    /\ result' = TRUE /\ rtry' = 0 /\ hidx' = 0 /\ nmeas' = 0
    /\ moves' = <<>> /\ contactMeas' = <<>>
    /\ UNCHANGED <<params, plan, suspend, abort, state, remeasure_counter, recontact_counter, data,
                   caught, escaped, entered, tripped, afterTrip, writerLog>>
    /\ UNCHANGED subVars

\* __call__, finally clause: show_statistics and serialize_data.  A writer
\* that raises ends the serialization: n is the number of invocations made.
Serialize ==
    /\ pc = "serialize"
    /\ pc' = "done"
    /\ LET todo == writer_calls(data)
       IN \E n \in 0..Len(todo) :
          \E raised \in BOOLEAN :
            /\ n < Len(todo) => raised
            /\ n = 0 => (Len(todo) = 0 /\ ~raised)
            /\ writerLog' = SubSeq(todo, 1, n)
            /\ escaped' = IF raised THEN "writer" ELSE escaped
    /\ UNCHANGED <<params, plan, suspend, nmeas, abort, state, strip, attempt, position, sidx,
                   result, rtry, hidx, remeasure_counter, recontact_counter, data,
                   contacted, opened, caught, finalizeError, entered, moves,
                   contactMeas, tripped, afterTrip, stationFinalize, ctrlFinalize>>
    /\ UNCHANGED subVars

\* Context.request_abort, from the GUI thread, at any time during a run.
RequestAbort ==
    /\ pc \notin {"idle", "done"}
    /\ ~abort
    /\ abort' = TRUE
    /\ UNCHANGED <<pc, params, plan, suspend, nmeas, state, strip, attempt, position, sidx,
                   result, rtry, hidx, remeasure_counter, recontact_counter, data,
                   contacted, opened, caught, finalizeError, escaped, entered, moves,
                   contactMeas, tripped, afterTrip, stationFinalize, ctrlFinalize,
                   writerLog>>
    /\ UNCHANGED subVars

\* Where the orchestrator is inside Context.handle_suspend.
Suspended == {"item_suspended", "strip_suspended"}

\* A handle_suspend that puts the item back to Pending.
handle_suspend_pending ==
    /\ pc \in Suspended
    /\ ~suspend \/ abort
    /\ state' = [state EXCEPT ![Parent] = "Pending"]
    /\ pc' = IF pc = "item_suspended" THEN "item_resumed" ELSE "strip_resumed"
    /\ UNCHANGED <<params, plan, suspend, nmeas, abort, strip, attempt, position, sidx,
                   result, rtry, hidx, remeasure_counter, recontact_counter, data,
                   contacted, opened, caught, finalizeError, escaped, entered, moves,
                   contactMeas, tripped, afterTrip, stationFinalize, ctrlFinalize,
                   writerLog>>
    /\ UNCHANGED subVars

\* A handle_suspend whose loop does not look at the abort event.
handle_suspend_deaf ==
    /\ pc \in Suspended
    /\ ~suspend
    /\ state' = [state EXCEPT ![Parent] = "Active"]
    /\ pc' = IF pc = "item_suspended" THEN "item_resumed" ELSE "strip_resumed"
    /\ UNCHANGED <<params, plan, suspend, nmeas, abort, strip, attempt, position, sidx,
                   result, rtry, hidx, remeasure_counter, recontact_counter, data,
                   contacted, opened, caught, finalizeError, escaped, entered, moves,
                   contactMeas, tripped, afterTrip, stationFinalize, ctrlFinalize,
                   writerLog>>
    /\ UNCHANGED subVars

\* Context.handle_suspend and the end of SequenceStrategy.handle_suspend: the
\* loop is left when the suspend event is found cleared or the abort event
\* set, and the item is set Active.
handle_suspend ==
    /\ pc \in Suspended
    /\ ~suspend \/ abort
    /\ state' = [state EXCEPT ![Parent] = "Active"]
    /\ pc' = IF pc = "item_suspended" THEN "item_resumed" ELSE "strip_resumed"
    /\ UNCHANGED <<params, plan, suspend, nmeas, abort, strip, attempt, position, sidx,
                   result, rtry, hidx, remeasure_counter, recontact_counter, data,
                   contacted, opened, caught, finalizeError, escaped, entered, moves,
                   contactMeas, tripped, afterTrip, stationFinalize, ctrlFinalize,
                   writerLog>>
    /\ UNCHANGED subVars

\* Context.request_suspend, from the GUI thread.
request_suspend ==
    /\ pc # "done"
    /\ ~suspend
    /\ suspend' = TRUE
    /\ UNCHANGED <<pc, params, plan, nmeas, abort, state, strip, attempt, position, sidx,
                   result, rtry, hidx, remeasure_counter, recontact_counter, data,
                   contacted, opened, caught, finalizeError, escaped, entered, moves,
                   contactMeas, tripped, afterTrip, stationFinalize, ctrlFinalize,
                   writerLog>>
    /\ UNCHANGED subVars

\* Context.request_continue, from the GUI thread.
request_continue ==
    /\ pc # "done"
    /\ suspend
    /\ suspend' = FALSE
    /\ UNCHANGED <<pc, params, plan, nmeas, abort, state, strip, attempt, position, sidx,
                   result, rtry, hidx, remeasure_counter, recontact_counter, data,
                   contacted, opened, caught, finalizeError, escaped, entered, moves,
                   contactMeas, tripped, afterTrip, stationFinalize, ctrlFinalize,
                   writerLog>>
    /\ UNCHANGED subVars

NextRun ==
    \/ Call
    \/ Initialize
    \/ BeforeSequence
    \/ ItemBegin
    \/ ItemMeasure
    \/ StripBegin
    \/ Contact
    \/ StripItem
    \/ Measure
    \/ StripItemPost
    \/ Recover
    \/ StripEnd
    \/ ItemFinish
    \/ ItemAfter
    \/ AfterSequence
    \/ Finalize
    \/ Serialize
    \/ RequestAbort

(***************************************************************************)
(* CapacitorDischarge.__call__ (station.py): discharging the decoupling    *)
(* capacitor through the SMU.                                              *)
(***************************************************************************)
MaxCharge == 3
MaxPolls == 3

\* The last n of the assignments `first, second, third = ...` that were made.
writes_done == 0..3

\* check_discharged_state: the mean voltage is at or below the threshold.
check_discharged_state(v) == v = 0

\* t.delta() > self.timeout, the timer counted in polls.
discharge_timeout(n) == n >= MaxPolls

\* safe_discharge is called with the SMU output off (safe_recover_smu).
InitDischarge ==
    /\ dpc = "set_discharge"
    /\ relay = FALSE
    /\ smu_route_terminal \in {"REAR", "FRONT"}
    /\ smu_function \in {"VOLTAGE", "CURRENT"}
    /\ smu_output = FALSE
    /\ charge \in 0..MaxCharge
    /\ polls = 0
    /\ success = FALSE
    /\ dexit = "none"

\* Nothing is being discharged.
NoDischarge ==
    /\ dpc = "set_discharge"
    /\ relay = FALSE
    /\ smu_route_terminal = "REAR"
    /\ smu_function = "VOLTAGE"
    /\ smu_output = FALSE
    /\ charge = 0
    /\ polls = 0
    /\ success = FALSE
    /\ dexit = "none"

\* An exception leaves __call__: there is no try/finally in it.
RaiseDischarge ==
    /\ dpc' = "done"
    /\ dexit' = "raised"

\* __call__, lines 731-732: environ.set_discharge(True).
DischargeBegin ==
    /\ dpc = "set_discharge"
    /\ \E o \in {"ok", "raise"} :
        IF o = "ok"
        THEN relay' = TRUE /\ dpc' = "source" /\ dexit' = dexit
        ELSE relay' = relay /\ RaiseDischarge
    /\ UNCHANGED <<smu_route_terminal, smu_function, smu_output, charge, polls, success>>
    /\ UNCHANGED <<runVars, switchVars, ownVars, reqVars, tableVars, moreVars>>

\* __call__, lines 734-737: front terminal, current function, output on.
\* n of the three writes are made before one of them raises.
DischargeSource ==
    /\ dpc = "source"
    /\ \E n \in writes_done :
        /\ smu_route_terminal' = IF n >= 1 THEN "FRONT" ELSE smu_route_terminal
        /\ smu_function' = IF n >= 2 THEN "CURRENT" ELSE smu_function
        /\ smu_output' = IF n >= 3 THEN TRUE ELSE smu_output
        /\ IF n = 3 THEN dpc' = "errors" /\ dexit' = dexit ELSE RaiseDischarge
    /\ UNCHANGED <<relay, charge, polls, success>>
    /\ UNCHANGED <<runVars, switchVars, ownVars, reqVars, tableVars, moreVars>>

\* __call__, lines 739-740: an error in the SMU's queue raises RuntimeError.
DischargeErrors ==
    /\ dpc = "errors"
    /\ \E error \in BOOLEAN :
        IF error THEN RaiseDischarge ELSE dpc' = "poll" /\ dexit' = dexit
    /\ UNCHANGED <<relay, smu_route_terminal, smu_function, smu_output, charge, polls,
                   success>>
    /\ UNCHANGED <<runVars, switchVars, ownVars, reqVars, tableVars, moreVars>>

\* __call__, lines 747-756: one round of the loop.  The capacitor loses
\* charge or not; reading the voltage can raise.
DischargePoll ==
    /\ dpc = "poll"
    /\ \E o \in {"ok", "raise"} : \E drop \in 0..1 :
        /\ charge' = IF charge >= drop THEN charge - drop ELSE 0
        /\ polls' = polls + 1
        /\ IF o = "raise"
           THEN RaiseDischarge /\ success' = success
           ELSE /\ success' = check_discharged_state(charge')
                /\ dexit' = dexit
                /\ dpc' = IF success' \/ discharge_timeout(polls') THEN "restore" ELSE dpc
    /\ UNCHANGED <<relay, smu_route_terminal, smu_function, smu_output>>
    /\ UNCHANGED <<runVars, switchVars, ownVars, reqVars, tableVars, moreVars>>

\* __call__, lines 758-760: output off, voltage function, rear terminal.
DischargeRestore ==
    /\ dpc = "restore"
    /\ \E n \in writes_done :
        /\ smu_output' = IF n >= 1 THEN FALSE ELSE smu_output
        /\ smu_function' = IF n >= 2 THEN "VOLTAGE" ELSE smu_function
        /\ smu_route_terminal' = IF n >= 3 THEN "REAR" ELSE smu_route_terminal
        /\ IF n = 3 THEN dpc' = "errors_after" /\ dexit' = dexit ELSE RaiseDischarge
    /\ UNCHANGED <<relay, charge, polls, success>>
    /\ UNCHANGED <<runVars, switchVars, ownVars, reqVars, tableVars, moreVars>>

\* __call__, lines 761-762: an error in the SMU's queue raises RuntimeError.
DischargeErrorsAfter ==
    /\ dpc = "errors_after"
    /\ \E error \in BOOLEAN :
        IF error THEN RaiseDischarge ELSE dpc' = "release" /\ dexit' = dexit
    /\ UNCHANGED <<relay, smu_route_terminal, smu_function, smu_output, charge, polls,
                   success>>
    /\ UNCHANGED <<runVars, switchVars, ownVars, reqVars, tableVars, moreVars>>

\* __call__, lines 764-768: environ.set_discharge(False), return success.
DischargeEnd ==
    /\ dpc = "release"
    /\ \E o \in {"ok", "raise"} :
        IF o = "ok"
        THEN relay' = FALSE /\ dpc' = "done" /\ dexit' = "returned"
        ELSE relay' = relay /\ RaiseDischarge
    /\ UNCHANGED <<smu_route_terminal, smu_function, smu_output, charge, polls, success>>
    /\ UNCHANGED <<runVars, switchVars, ownVars, reqVars, tableVars, moreVars>>

\* A safe_discharge that raises when the capacitor was not discharged.
safe_discharge_checked ==
    /\ dpc = "done"
    /\ dpc' = IF dexit = "returned" /\ success THEN "proceed" ELSE "raised"
    /\ UNCHANGED <<relay, smu_route_terminal, smu_function, smu_output, charge, polls,
                   success, dexit>>
    /\ UNCHANGED <<runVars, switchVars, ownVars, reqVars, tableVars, moreVars>>

\* Station.safe_discharge: the value CapacitorDischarge returned is dropped
\* and the caller goes on; an exception goes on to the caller.
safe_discharge ==
    /\ dpc = "done"
    /\ dpc' = IF dexit = "returned" THEN "proceed" ELSE "raised"
    /\ UNCHANGED <<relay, smu_route_terminal, smu_function, smu_output, charge, polls,
                   success, dexit>>
    /\ UNCHANGED <<runVars, switchVars, ownVars, reqVars, tableVars, moreVars>>

NextDischarge ==
    \/ DischargeBegin
    \/ DischargeSource
    \/ DischargeErrors
    \/ DischargePoll
    \/ DischargeRestore
    \/ DischargeErrorsAfter
    \/ DischargeEnd
    \/ safe_discharge

(***************************************************************************)
(* Station.hv_switch_apply / lv_switch_apply (station.py).                 *)
(***************************************************************************)
NumChannels == 3
Channels == 1..NumChannels

\* A switch_apply that closes every wanted channel, closed already or not.
close_channels_all(closed, wanted) == wanted

\* close_channels = set(channels) - set(switch.closed_channels)
close_channels(closed, wanted) == wanted \ closed

\* open_channels = set(switch.closed_channels) - set(channels)
open_channels(closed, wanted) == closed \ wanted

\* The matrix after switch.open_channels(S) / switch.close_channels(S): a
\* relay that is stuck keeps its state.
after_open(closed, S) == closed \ (S \ stuck)
after_close(closed, S) == closed \cup (S \ stuck)

InitSwitch ==
    /\ spc = "open"
    /\ switch \in {"hv_switch", "lv_switch"}
    /\ closed_channels \in SUBSET Channels
    /\ channels \in SUBSET Channels
    /\ stuck \in {S \in SUBSET Channels : Cardinality(S) <= 1}
    /\ closed0 = closed_channels
    /\ calls = <<>>
    /\ sexit = "none"

\* No switch_apply is going on.
NoSwitch ==
    /\ spc = "open"
    /\ switch = "hv_switch"
    /\ closed_channels = {}
    /\ channels = {}
    /\ stuck = {}
    /\ closed0 = {}
    /\ calls = <<>>
    /\ sexit = "none"

\* hv_switch_apply, lines 165-168: open the channels that are not wanted.
SwitchOpen ==
    /\ spc = "open"
    /\ LET S == open_channels(closed_channels, channels)
       IN IF S # {}
          THEN \E o \in {"ok", "raise"} :
                 /\ calls' = Append(calls, <<"open", S>>)
                 /\ IF o = "ok"
                    THEN /\ closed_channels' = after_open(closed_channels, S)
                         /\ spc' = "close"
                         /\ sexit' = sexit
                    ELSE /\ closed_channels' = closed_channels
                         /\ spc' = "done"
                         /\ sexit' = "raised"
          ELSE /\ spc' = "close"
               /\ UNCHANGED <<calls, closed_channels, sexit>>
    /\ UNCHANGED <<switch, channels, stuck, closed0>>
    /\ UNCHANGED <<runVars, dischargeVars, ownVars, reqVars, tableVars, moreVars>>

\* hv_switch_apply, lines 170-173: close the wanted channels that are open.
SwitchClose ==
    /\ spc = "close"
    /\ LET S == close_channels(closed_channels, channels)
       IN IF S # {}
          THEN \E o \in {"ok", "raise"} :
                 /\ calls' = Append(calls, <<"close", S>>)
                 /\ IF o = "ok"
                    THEN /\ closed_channels' = after_close(closed_channels, S)
                         /\ spc' = "verify"
                         /\ sexit' = sexit
                    ELSE /\ closed_channels' = closed_channels
                         /\ spc' = "done"
                         /\ sexit' = "raised"
          ELSE /\ spc' = "verify"
               /\ UNCHANGED <<calls, closed_channels, sexit>>
    /\ UNCHANGED <<switch, channels, stuck, closed0>>
    /\ UNCHANGED <<runVars, dischargeVars, ownVars, reqVars, tableVars, moreVars>>

\* hv_switch_apply, lines 175-176: RuntimeError unless the closed set is the
\* wanted one.
SwitchVerify ==
    /\ spc = "verify"
    /\ spc' = "done"
    /\ sexit' = IF closed_channels = channels THEN "returned" ELSE "raised"
    /\ UNCHANGED <<switch, closed_channels, channels, stuck, closed0, calls>>
    /\ UNCHANGED <<runVars, dischargeVars, ownVars, reqVars, tableVars, moreVars>>

NextSwitch ==
    \/ SwitchOpen
    \/ SwitchClose
    \/ SwitchVerify

(***************************************************************************)
(* Threads and links: the alignment dialog with its TableController and    *)
(* NeedleController, the inspection worker, and the measurement run.       *)
(***************************************************************************)
MaxQueue == 2

\* The links to the table and to the needle stage, named as the resources.
Links == {"table", "tango"}

Threads == {"gui", "table_worker", "needle_worker", "inspection", "orchestrator"}

\* The thread of TableController (table) and of NeedleController (tango).
worker(c) == IF c = "table" THEN "table_worker" ELSE "needle_worker"

InitOwn ==
    /\ gui = "main"
    /\ ctl = [c \in Links |-> "stopped"]
    /\ queue = [c \in Links |-> <<>>]
    /\ busy = [t \in Threads |-> "none"]
    /\ insp = "idle"
    /\ stopRequested = FALSE
    /\ run = "idle"

\* MainWindow.showAlignmentDialog up to dialog.exec(): ControlWidget starts
\* both controllers.  The action is disabled while a run is going on.
showAlignmentDialog ==
    /\ gui = "main"
    /\ run = "idle"
    /\ gui' = "alignment"
    /\ ctl' = [c \in Links |-> "running"]
    /\ queue' = [c \in Links |-> <<>>]
    /\ UNCHANGED <<busy, insp, stopRequested, run>>
    /\ UNCHANGED <<runVars, dischargeVars, switchVars, reqVars, tableVars, moreVars>>

\* TableController.moveRelative and the like: the request is put in the queue.
moveRelative ==
    /\ gui = "alignment"
    /\ busy["gui"] = "none"
    /\ Len(queue["table"]) < MaxQueue
    /\ queue' = [queue EXCEPT !["table"] = Append(@, "move_relative")]
    /\ UNCHANGED <<gui, ctl, busy, insp, stopRequested, run>>
    /\ UNCHANGED <<runVars, dischargeVars, switchVars, reqVars, tableVars, moreVars>>

\* NeedleController.requestMoveUp and the like.
requestMoveUp ==
    /\ gui = "alignment"
    /\ busy["gui"] = "none"
    /\ Len(queue["tango"]) < MaxQueue
    /\ queue' = [queue EXCEPT !["tango"] = Append(@, "moveUp")]
    /\ UNCHANGED <<gui, ctl, busy, insp, stopRequested, run>>
    /\ UNCHANGED <<runVars, dischargeVars, switchVars, reqVars, tableVars, moreVars>>

\* NeedleController.diagnose: station.needles_diagnose() on the calling
\* thread, not through the queue.
diagnose ==
    /\ gui = "alignment"
    /\ busy["gui"] = "none"
    /\ busy' = [busy EXCEPT !["gui"] = "tango"]
    /\ UNCHANGED <<gui, ctl, queue, insp, stopRequested, run>>
    /\ UNCHANGED <<runVars, dischargeVars, switchVars, reqVars, tableVars, moreVars>>

\* NeedleController.diagnose returns.
diagnoseReturn ==
    /\ busy["gui"] = "tango"
    /\ busy' = [busy EXCEPT !["gui"] = "none"]
    /\ UNCHANGED <<gui, ctl, queue, insp, stopRequested, run>>
    /\ UNCHANGED <<runVars, dischargeVars, switchVars, reqVars, tableVars, moreVars>>

\* TableController.handleRequest / NeedleController.handleEvent: the worker
\* takes a request from the queue and starts it.
handleRequest(c) ==
    /\ ctl[c] = "running"
    /\ queue[c] # <<>>
    /\ busy[worker(c)] = "none"
    /\ queue' = [queue EXCEPT ![c] = Tail(@)]
    /\ busy' = [busy EXCEPT ![worker(c)] = c]
    /\ UNCHANGED <<gui, ctl, insp, stopRequested, run>>
    /\ UNCHANGED <<runVars, dischargeVars, switchVars, reqVars, tableVars, moreVars>>

\* The request of the worker is done.
requestDone(c) ==
    /\ busy[worker(c)] = c
    /\ busy' = [busy EXCEPT ![worker(c)] = "none"]
    /\ UNCHANGED <<gui, ctl, queue, insp, stopRequested, run>>
    /\ UNCHANGED <<runVars, dischargeVars, switchVars, reqVars, tableVars, moreVars>>

\* ControlWidget.showInspectDialog up to dialog.exec().
showInspectDialog ==
    /\ gui = "alignment"
    /\ busy["gui"] = "none"
    /\ gui' = "inspection"
    /\ UNCHANGED <<ctl, queue, busy, insp, stopRequested, run>>
    /\ UNCHANGED <<runVars, dischargeVars, switchVars, reqVars, tableVars, moreVars>>

\* InspectionWidget.enterRunning: the worker thread is started.
enterRunning ==
    /\ gui = "inspection"
    /\ insp = "idle"
    /\ insp' = "started"
    /\ stopRequested' = FALSE
    /\ UNCHANGED <<gui, ctl, queue, busy, run>>
    /\ UNCHANGED <<runVars, dischargeVars, switchVars, reqVars, tableVars, moreVars>>

\* ControlWidget.showInspectDialog after dialog.exec(): stopButton.click(),
\* which sets _stopRequested if the worker runs; the thread is not joined.
closeInspectDialog ==
    /\ gui = "inspection"
    /\ gui' = "alignment"
    /\ stopRequested' = IF insp # "idle" THEN TRUE ELSE stopRequested
    /\ UNCHANGED <<ctl, queue, busy, insp, run>>
    /\ UNCHANGED <<runVars, dischargeVars, switchVars, reqVars, tableVars, moreVars>>

\* InspectionWidget.worker: station.table_move_relative, table_position and
\* table_move_absolute, called on the worker's own thread.
inspectionMove ==
    /\ insp \in {"started", "loop"}
    /\ insp = "loop" => ~stopRequested
    /\ busy["inspection"] = "none"
    /\ busy' = [busy EXCEPT !["inspection"] = "table"]
    /\ UNCHANGED <<gui, ctl, queue, insp, stopRequested, run>>
    /\ UNCHANGED <<runVars, dischargeVars, switchVars, reqVars, tableVars, moreVars>>

\* The table command of the inspection worker returns.
inspectionMoveDone ==
    /\ busy["inspection"] = "table"
    /\ busy' = [busy EXCEPT !["inspection"] = "none"]
    /\ insp' = "loop"
    /\ UNCHANGED <<gui, ctl, queue, stopRequested, run>>
    /\ UNCHANGED <<runVars, dischargeVars, switchVars, reqVars, tableVars, moreVars>>

\* InspectionWidget.worker ends: all images taken, or stop requested.
inspectionFinished ==
    /\ insp = "loop"
    /\ busy["inspection"] = "none"
    /\ insp' = "idle"
    /\ UNCHANGED <<gui, ctl, queue, busy, stopRequested, run>>
    /\ UNCHANGED <<runVars, dischargeVars, switchVars, reqVars, tableVars, moreVars>>

\* MainWindow.showAlignmentDialog after dialog.exec(): handleAutoStart, which
\* may emit startRequested, comes before dialog.shutdown().
handleAutoStart ==
    /\ gui = "alignment"
    /\ busy["gui"] = "none"
    /\ gui' = "shutdown"
    /\ \E start \in BOOLEAN : run' = IF start THEN "requested" ELSE run
    /\ UNCHANGED <<ctl, queue, busy, insp, stopRequested>>
    /\ UNCHANGED <<runVars, dischargeVars, switchVars, reqVars, tableVars, moreVars>>

\* ControlWidget.shutdown: tableController.shutdown(), then
\* needleController.shutdown(); each sets _shutdown and joins the thread.
shutdown(c) ==
    /\ gui = "shutdown"
    /\ ctl[c] = "running"
    /\ c = "tango" => ctl["table"] = "stopped"
    /\ ctl' = [ctl EXCEPT ![c] = "shutdown"]
    /\ UNCHANGED <<gui, queue, busy, insp, stopRequested, run>>
    /\ UNCHANGED <<runVars, dischargeVars, switchVars, reqVars, tableVars, moreVars>>

\* eventLoop sees _shutdown, closes the resource and ends.
eventLoopExit(c) ==
    /\ ctl[c] = "shutdown"
    /\ busy[worker(c)] = "none"
    /\ ctl' = [ctl EXCEPT ![c] = "stopped"]
    /\ UNCHANGED <<gui, queue, busy, insp, stopRequested, run>>
    /\ UNCHANGED <<runVars, dischargeVars, switchVars, reqVars, tableVars, moreVars>>

\* showAlignmentDialog returns to the event loop of the main window.
dialogClosed ==
    /\ gui = "shutdown"
    /\ \A c \in Links : ctl[c] = "stopped"
    /\ gui' = "main"
    /\ UNCHANGED <<ctl, queue, busy, insp, stopRequested, run>>
    /\ UNCHANGED <<runVars, dischargeVars, switchVars, reqVars, tableVars, moreVars>>

\* MainWindow.requestStart: startRequested is emitted.
requestStart ==
    /\ gui = "main"
    /\ run = "idle"
    /\ run' = "requested"
    /\ UNCHANGED <<gui, ctl, queue, busy, insp, stopRequested>>
    /\ UNCHANGED <<runVars, dischargeVars, switchVars, reqVars, tableVars, moreVars>>

\* MainWindow.enterRunningState, once the event loop delivers the
\* transition: sequenceController.start() starts the orchestrator thread.
enterRunningState ==
    /\ gui = "main"
    /\ run = "requested"
    /\ run' = "running"
    /\ UNCHANGED <<gui, ctl, queue, busy, insp, stopRequested>>
    /\ UNCHANGED <<runVars, dischargeVars, switchVars, reqVars, tableVars, moreVars>>

\* The orchestrator issues a command: station.table_* on the table,
\* check_identities on every resource.
orchestratorCommand ==
    /\ run = "running"
    /\ busy["orchestrator"] = "none"
    /\ \E l \in Links : busy' = [busy EXCEPT !["orchestrator"] = l]
    /\ UNCHANGED <<gui, ctl, queue, insp, stopRequested, run>>
    /\ UNCHANGED <<runVars, dischargeVars, switchVars, reqVars, tableVars, moreVars>>

\* The command of the orchestrator returns.
orchestratorCommandDone ==
    /\ busy["orchestrator"] # "none"
    /\ busy' = [busy EXCEPT !["orchestrator"] = "none"]
    /\ UNCHANGED <<gui, ctl, queue, insp, stopRequested, run>>
    /\ UNCHANGED <<runVars, dischargeVars, switchVars, reqVars, tableVars, moreVars>>

\* SequenceController.run ends.
runFinished ==
    /\ run = "running"
    /\ busy["orchestrator"] = "none"
    /\ run' = "idle"
    /\ UNCHANGED <<gui, ctl, queue, busy, insp, stopRequested>>
    /\ UNCHANGED <<runVars, dischargeVars, switchVars, reqVars, tableVars, moreVars>>

NextOwn ==
    \/ showAlignmentDialog
    \/ moveRelative
    \/ requestMoveUp
    \/ diagnose
    \/ diagnoseReturn
    \/ \E c \in Links : handleRequest(c)
    \/ \E c \in Links : requestDone(c)
    \/ showInspectDialog
    \/ enterRunning
    \/ closeInspectDialog
    \/ inspectionMove
    \/ inspectionMoveDone
    \/ inspectionFinished
    \/ handleAutoStart
    \/ \E c \in Links : shutdown(c)
    \/ \E c \in Links : eventLoopExit(c)
    \/ dialogClosed
    \/ requestStart
    \/ enterRunningState
    \/ orchestratorCommand
    \/ orchestratorCommandDone
    \/ runFinished

(***************************************************************************)
(* The controllers (sqc/controller): a worker thread per controller serves *)
(* the Requests put in its queue.                                          *)
(***************************************************************************)
NumRequests == 3
MaxFaults == 1

Controllers == {"table", "needle", "environ"}

Requests == 1..NumRequests

\* The bound method _pc_data that EnvironController.eventLoop puts in its own
\* queue: an item of the queue that is not a Request.
pc_data == NumRequests + 1

\* queue.Queue.get: the oldest item, and the queue without it.
queue_get_lifo(q) == <<q[Len(q)], SubSeq(q, 1, Len(q) - 1)>>

queue_get_peek(q) == <<Head(q), q>>

queue_get(q) == <<Head(q), Tail(q)>>

\* Request(target): the callable (here: whether it raises) and empty slots.
Request(c, raises) ==
    [ctl |-> c, raises |-> raises, state |-> "queued", result |-> "none", execs |-> 0]

\* A Request that was not created yet.
NoRequest ==
    [ctl |-> "table", raises |-> FALSE, state |-> "new", result |-> "none", execs |-> 0]

\* Request.__call__, entry: the callable is invoked.
Request_invoke(q) == [q EXCEPT !.state = "running", !.execs = @ + 1]

\* Request.__call__, exit: the value or the error is captured and completion
\* is signalled.
Request_capture(q) ==
    [q EXCEPT !.state = "done", !.result = IF q.raises THEN "error" ELSE "value"]

Request_get_none(q) == IF q.state = "done" /\ q.result = "error" THEN "error" ELSE "value"

\* Request.get(timeout), when it returns: RequestTimeout unless the Request
\* completed, else the captured error or value.
Request_get(q) == IF q.state # "done" THEN "timeout" ELSE q.result

\* The controllers are independent of each other: one of them is started and
\* used, the threads of the others are "off".
InitReq ==
    /\ mailbox = [c \in Controllers |-> <<>>]
    /\ request = [r \in Requests |-> NoRequest]
    /\ nreq = 0
    /\ wstate \in {[c \in Controllers |-> IF c = a THEN "open" ELSE "off"] : a \in Controllers}
    /\ link = [c \in Controllers |-> FALSE]
    /\ stop = [c \in Controllers |-> FALSE]
    /\ cur = [c \in Controllers |-> 0]
    /\ faults = 0
    /\ order = <<>>
    /\ gets = {}
    /\ logged = {}
    /\ emitted = {}
    /\ caughtOpen = {}

NoReq ==
    /\ mailbox = [c \in Controllers |-> <<>>]
    /\ request = [r \in Requests |-> NoRequest]
    /\ nreq = 0
    /\ wstate = [c \in Controllers |-> "off"]
    /\ link = [c \in Controllers |-> FALSE]
    /\ stop = [c \in Controllers |-> FALSE]
    /\ cur = [c \in Controllers |-> 0]
    /\ faults = 0
    /\ order = <<>>
    /\ gets = {}
    /\ logged = {}
    /\ emitted = {}
    /\ caughtOpen = {}

\* self._queue.put(Request(request)) of a controller.
put(c, raises) ==
    /\ nreq < NumRequests
    /\ wstate[c] # "off"
    /\ ~stop[c]
    /\ nreq' = nreq + 1
    /\ request' = [request EXCEPT ![nreq + 1] = Request(c, raises)]
    /\ mailbox' = [mailbox EXCEPT ![c] = Append(@, nreq + 1)]
    /\ UNCHANGED <<wstate, link, stop, cur, faults, order, gets, logged, emitted, caughtOpen>>
    /\ UNCHANGED <<runVars, dischargeVars, switchVars, ownVars, tableVars, moreVars>>

\* TableController.moveAbsolute and the like: the Request is put in the queue
\* and the call returns None.
moveAbsolute == \E raises \in BOOLEAN : put("table", raises)

\* NeedleController.requestMoveDown and the like.
requestMoveDown == \E raises \in BOOLEAN : put("needle", raises)

\* EnvironController.get_box_door_state and the like, up to the put.
get_box_door_state == \E raises \in BOOLEAN : put("environ", raises)

\* A caller that takes its Request out of the queue when get() times out.
get_box_door_state_return_cancels(r) ==
    LET g == [r |-> r, by |-> "caller", done |-> request[r].state = "done",
              seen |-> Request_get(request[r])] IN
    /\ r <= nreq
    /\ request[r].ctl = "environ"
    /\ g \notin gets
    /\ gets' = gets \cup {g}
    /\ mailbox' = IF g.seen = "timeout"
                  THEN [mailbox EXCEPT !["environ"] = SelectSeq(@, LAMBDA x : x # r)]
                  ELSE mailbox
    /\ UNCHANGED <<request, nreq, wstate, link, stop, cur, faults, order,
                   logged, emitted, caughtOpen>>
    /\ UNCHANGED <<runVars, dischargeVars, switchVars, ownVars, tableVars, moreVars>>

\* EnvironController.get_box_door_state and the like: request.get() of the
\* caller returns, with RequestTimeout if the Request did not complete.
get_box_door_state_return(r) ==
    LET g == [r |-> r, by |-> "caller", done |-> request[r].state = "done",
              seen |-> Request_get(request[r])] IN
    /\ r <= nreq
    /\ request[r].ctl = "environ"
    /\ g \notin gets
    /\ gets' = gets \cup {g}
    /\ UNCHANGED <<mailbox, request, nreq, wstate, link, stop, cur, faults, order,
                   logged, emitted, caughtOpen>>
    /\ UNCHANGED <<runVars, dischargeVars, switchVars, ownVars, tableVars, moreVars>>

\* shutdown() of a controller: _shutdown.set(); the join is not modelled.
set_shutdown(c) ==
    /\ wstate[c] # "off"
    /\ ~stop[c]
    /\ stop' = [stop EXCEPT ![c] = TRUE]
    /\ UNCHANGED <<mailbox, request, nreq, wstate, link, cur, faults, order, gets,
                   logged, emitted, caughtOpen>>
    /\ UNCHANGED <<runVars, dischargeVars, switchVars, ownVars, tableVars, moreVars>>

\* Opening the resource of a controller succeeds, or fails.
LinkOutcomes == {"ok"} \cup (IF faults < MaxFaults THEN {"fail"} ELSE {})

\* self._queue.get(timeout) returned an item: the worker starts it.
take(c) ==
    LET g == queue_get(mailbox[c]) IN
    /\ mailbox' = [mailbox EXCEPT ![c] = g[2]]
    /\ cur' = [cur EXCEPT ![c] = g[1]]
    /\ wstate' = [wstate EXCEPT ![c] = "run"]
    /\ IF g[1] = pc_data
       THEN UNCHANGED <<request, order>>
       ELSE /\ request' = [request EXCEPT ![g[1]] = Request_invoke(@)]
            /\ order' = Append(order, g[1])

\* request.get() of the worker right after request(context).
worker_get(c) ==
    [r |-> cur[c], by |-> "worker", done |-> request'[cur[c]].state = "done",
     seen |-> Request_get(request'[cur[c]])]

\* TableController.eventLoop and enterContext up to the inner loop.
TableController_enterContext ==
    /\ wstate["table"] = "open"
    /\ IF stop["table"]
       THEN /\ wstate' = [wstate EXCEPT !["table"] = "exited"]
            /\ UNCHANGED <<link, faults>>
       ELSE \E o \in LinkOutcomes :
              IF o = "ok"
              THEN /\ link' = [link EXCEPT !["table"] = TRUE]
                   /\ wstate' = [wstate EXCEPT !["table"] = "serve"]
                   /\ UNCHANGED faults
              ELSE /\ link' = [link EXCEPT !["table"] = FALSE]
                   /\ wstate' = [wstate EXCEPT !["table"] = "backoff"]
                   /\ faults' = faults + 1
    /\ UNCHANGED <<mailbox, request, nreq, stop, cur, order, gets, logged, emitted, caughtOpen>>
    /\ UNCHANGED <<runVars, dischargeVars, switchVars, ownVars, tableVars, moreVars>>

\* TableController.eventLoop: time.sleep after the exception was logged.
TableController_backoff ==
    /\ wstate["table"] = "backoff"
    /\ wstate' = [wstate EXCEPT !["table"] = "open"]
    /\ UNCHANGED <<mailbox, request, nreq, link, stop, cur, faults, order, gets,
                   logged, emitted, caughtOpen>>
    /\ UNCHANGED <<runVars, dischargeVars, switchVars, ownVars, tableVars, moreVars>>

\* TableController.enterContext, inner loop, and handleRequest up to
\* request(context).  With _shutdown set the resource is closed and the
\* thread returns.
TableController_handleRequest ==
    /\ wstate["table"] = "serve"
    /\ IF stop["table"]
       THEN /\ link' = [link EXCEPT !["table"] = FALSE]
            /\ wstate' = [wstate EXCEPT !["table"] = "exited"]
            /\ UNCHANGED <<mailbox, request, cur, order>>
       ELSE /\ mailbox["table"] # <<>>
            /\ take("table")
            /\ UNCHANGED link
    /\ UNCHANGED <<nreq, stop, faults, gets, logged, emitted, caughtOpen>>
    /\ UNCHANGED <<runVars, dischargeVars, switchVars, ownVars, tableVars, moreVars>>

\* TableController.handleRequest from the return of request(context):
\* request.get() raises the captured error, enterContext closes the
\* resource, eventLoop logs the exception.
TableController_requestDone ==
    /\ wstate["table"] = "run"
    /\ request' = [request EXCEPT ![cur["table"]] = Request_capture(@)]
    /\ gets' = gets \cup {worker_get("table")}
    /\ cur' = [cur EXCEPT !["table"] = 0]
    /\ IF worker_get("table").seen = "value"
       THEN /\ wstate' = [wstate EXCEPT !["table"] = "serve"]
            /\ UNCHANGED <<link, logged>>
       ELSE /\ link' = [link EXCEPT !["table"] = FALSE]
            /\ logged' = logged \cup {cur["table"]}
            /\ wstate' = [wstate EXCEPT !["table"] = "backoff"]
    /\ UNCHANGED <<mailbox, nreq, stop, faults, order, emitted, caughtOpen>>
    /\ UNCHANGED <<runVars, dischargeVars, switchVars, ownVars, tableVars, moreVars>>

\* NeedleController.eventLoop up to the loop: open_resource("tango") is
\* outside the try statement.
NeedleController_eventLoop ==
    /\ wstate["needle"] = "open"
    /\ \E o \in LinkOutcomes :
         IF o = "ok"
         THEN /\ link' = [link EXCEPT !["needle"] = TRUE]
              /\ wstate' = [wstate EXCEPT !["needle"] = "serve"]
              /\ UNCHANGED faults
         ELSE /\ wstate' = [wstate EXCEPT !["needle"] = "dead"]
              /\ faults' = faults + 1
              /\ UNCHANGED link
    /\ UNCHANGED <<mailbox, request, nreq, stop, cur, order, gets, logged, emitted, caughtOpen>>
    /\ UNCHANGED <<runVars, dischargeVars, switchVars, ownVars, tableVars, moreVars>>

\* NeedleController.eventLoop, the loop, and handleEvent up to request().
NeedleController_handleEvent ==
    /\ wstate["needle"] = "serve"
    /\ IF stop["needle"]
       THEN /\ link' = [link EXCEPT !["needle"] = FALSE]
            /\ wstate' = [wstate EXCEPT !["needle"] = "exited"]
            /\ UNCHANGED <<mailbox, request, cur, order>>
       ELSE /\ mailbox["needle"] # <<>>
            /\ take("needle")
            /\ UNCHANGED link
    /\ UNCHANGED <<nreq, stop, faults, gets, logged, emitted, caughtOpen>>
    /\ UNCHANGED <<runVars, dischargeVars, switchVars, ownVars, tableVars, moreVars>>

\* NeedleController.handleEvent from the return of request(): request.get()
\* raises the captured error, eventLoop logs it, emits failed and goes on
\* with the resource open.
NeedleController_eventDone ==
    /\ wstate["needle"] = "run"
    /\ request' = [request EXCEPT ![cur["needle"]] = Request_capture(@)]
    /\ gets' = gets \cup {worker_get("needle")}
    /\ cur' = [cur EXCEPT !["needle"] = 0]
    /\ wstate' = [wstate EXCEPT !["needle"] = "serve"]
    /\ IF worker_get("needle").seen = "value"
       THEN UNCHANGED <<logged, emitted, caughtOpen>>
       ELSE /\ logged' = logged \cup {cur["needle"]}
            /\ emitted' = emitted \cup {cur["needle"]}
            /\ caughtOpen' = caughtOpen \cup {"needle"}
    /\ UNCHANGED <<mailbox, nreq, link, stop, faults, order>>
    /\ UNCHANGED <<runVars, dischargeVars, switchVars, ownVars, tableVars, moreVars>>

\* EnvironController.eventLoop up to the inner loop: createResource.
EnvironController_eventLoop ==
    /\ wstate["environ"] = "open"
    /\ IF stop["environ"]
       THEN /\ wstate' = [wstate EXCEPT !["environ"] = "exited"]
            /\ UNCHANGED <<link, faults>>
       ELSE \E o \in LinkOutcomes :
              IF o = "ok"
              THEN /\ link' = [link EXCEPT !["environ"] = TRUE]
                   /\ wstate' = [wstate EXCEPT !["environ"] = "serve"]
                   /\ UNCHANGED faults
              ELSE /\ link' = [link EXCEPT !["environ"] = FALSE]
                   /\ wstate' = [wstate EXCEPT !["environ"] = "backoff"]
                   /\ faults' = faults + 1
    /\ UNCHANGED <<mailbox, request, nreq, stop, cur, order, gets, logged, emitted, caughtOpen>>
    /\ UNCHANGED <<runVars, dischargeVars, switchVars, ownVars, tableVars, moreVars>>

\* EnvironController.eventLoop: time.sleep(4.0) after the exception was logged.
EnvironController_backoff ==
    /\ wstate["environ"] = "backoff"
    /\ wstate' = [wstate EXCEPT !["environ"] = "open"]
    /\ UNCHANGED <<mailbox, request, nreq, link, stop, cur, faults, order, gets,
                   logged, emitted, caughtOpen>>
    /\ UNCHANGED <<runVars, dischargeVars, switchVars, ownVars, tableVars, moreVars>>

\* EnvironController.eventLoop: the interval elapsed, _pc_data is put in the
\* queue.
EnvironController_pc_data ==
    /\ wstate["environ"] = "serve"
    /\ ~stop["environ"]
    /\ \A k \in 1..Len(mailbox["environ"]) : mailbox["environ"][k] # pc_data
    /\ mailbox' = [mailbox EXCEPT !["environ"] = Append(@, pc_data)]
    /\ UNCHANGED <<request, nreq, wstate, link, stop, cur, faults, order, gets,
                   logged, emitted, caughtOpen>>
    /\ UNCHANGED <<runVars, dischargeVars, switchVars, ownVars, tableVars, moreVars>>

\* EnvironController.eventLoop, inner loop, and handleRequest up to
\* request(resource).
EnvironController_handleRequest ==
    /\ wstate["environ"] = "serve"
    /\ IF stop["environ"]
       THEN /\ link' = [link EXCEPT !["environ"] = FALSE]
            /\ wstate' = [wstate EXCEPT !["environ"] = "exited"]
            /\ UNCHANGED <<mailbox, request, cur, order>>
       ELSE /\ mailbox["environ"] # <<>>
            /\ take("environ")
            /\ UNCHANGED link
    /\ UNCHANGED <<nreq, stop, faults, gets, logged, emitted, caughtOpen>>
    /\ UNCHANGED <<runVars, dischargeVars, switchVars, ownVars, tableVars, moreVars>>

\* EnvironController.handleRequest from the return of request(resource).  A
\* Request keeps its error; an error of _pc_data leaves the with statement,
\* which closes the resource, and is logged by eventLoop.
EnvironController_requestDone ==
    /\ wstate["environ"] = "run"
    /\ cur' = [cur EXCEPT !["environ"] = 0]
    /\ IF cur["environ"] = pc_data
       THEN /\ \E o \in LinkOutcomes :
                 IF o = "ok"
                 THEN /\ wstate' = [wstate EXCEPT !["environ"] = "serve"]
                      /\ UNCHANGED <<link, faults>>
                 ELSE /\ link' = [link EXCEPT !["environ"] = FALSE]
                      /\ wstate' = [wstate EXCEPT !["environ"] = "backoff"]
                      /\ faults' = faults + 1
            /\ UNCHANGED request
       ELSE /\ request' = [request EXCEPT ![cur["environ"]] = Request_capture(@)]
            /\ wstate' = [wstate EXCEPT !["environ"] = "serve"]
            /\ UNCHANGED <<link, faults>>
    /\ UNCHANGED <<mailbox, nreq, stop, order, gets, logged, emitted, caughtOpen>>
    /\ UNCHANGED <<runVars, dischargeVars, switchVars, ownVars, tableVars, moreVars>>

NextReq ==
    \/ moveAbsolute
    \/ requestMoveDown
    \/ get_box_door_state
    \/ \E r \in Requests : get_box_door_state_return(r)
    \/ \E c \in Controllers : set_shutdown(c)
    \/ TableController_enterContext
    \/ TableController_backoff
    \/ TableController_handleRequest
    \/ TableController_requestDone
    \/ NeedleController_eventLoop
    \/ NeedleController_handleEvent
    \/ NeedleController_eventDone
    \/ EnvironController_eventLoop
    \/ EnvironController_backoff
    \/ EnvironController_pc_data
    \/ EnvironController_handleRequest
    \/ EnvironController_requestDone

(***************************************************************************)
(* The Table class (controller/table.py): movements of the XYZ table and   *)
(* the calibration request of TableController.                             *)
(***************************************************************************)
NumSteps == 2
poll_timeout == 3
MaxStart == 2

\* Table.safe_z_offset, in micrometres.
safe_z_offset == 250

Axes == {"x", "y", "z"}

abs(v) == IF v < 0 THEN -v ELSE v

\* Where the table starts, and where it is sent.
StartSpace == {<<0, 0, 100 + 200 * k>> : k \in 0..(MaxStart - 1)}

DestSpace == {<<0, 0, 300>>, <<50, 0, 400>>}

\* driver.pos: the table is on the way from origin to target.
driver_pos == [i \in 1..3 |-> origin[i] + ((target[i] - origin[i]) * progress) \div NumSteps]

\* driver.status & 0x1 == 0x1
moving == progress < NumSteps

\* The hardware during one time.sleep(poll_interval): a moving table changes
\* its position; a jammed one never comes to rest.
Advance ==
    IF progress = NumSteps THEN {NumSteps}
    ELSE IF jammed THEN {1 - progress}
    ELSE (progress + 1)..NumSteps

\* driver.rmove and driver.move (non blocking): the movement starts.
StartMovement(kind, arg) ==
    LET goal == IF kind = "rmove" THEN [i \in 1..3 |-> driver_pos[i] + arg[i]] ELSE arg IN
    /\ origin' = driver_pos
    /\ target' = goal
    /\ progress' = IF goal = driver_pos THEN NumSteps ELSE 0
    /\ cmds' = Append(cmds, [kind |-> kind, arg |-> arg, at |-> driver_pos, moving |-> moving])

\* Table.is_calibrated
is_calibrated == ~(caldone["x"] # 3) /\ ~(caldone["y"] # 3) /\ ~(caldone["x"] # 3)

\* Table.safe_move_absolute: the arguments of the three commands.
retract == <<0, 0, -abs(safe_z_offset)>>

xy_move_direct(p, here) == p

xy_move(p, here) == <<p[1], p[2], here[3]>>

z_move(p, here) == <<0, 0, p[3] - abs(here[3])>>

\* wait_movement_finished: pos.pop(0)
pos_pop_kept(p) == p

pos_pop(p) == Tail(p)

\* wait_movement_finished: t = Timer(); pos = [self.driver.pos].  The Table
\* of src/sqc reads nothing before its loop.
WaitBegin(next) ==
    /\ tpc' = "poll"
    /\ ret' = next
    /\ elapsed' = 0
    /\ sleeps' = 0
    /\ emits' = 0
    /\ poslist' = IF variant = "position" THEN <<driver_pos'>> ELSE <<>>
    /\ samples' = IF variant = "position" THEN <<driver_pos'>> ELSE <<>>

InitTable ==
    /\ variant \in {"position", "status"}
    /\ op \in {"safe_move_absolute", "requestCalibrate", "calibrate"}
    /\ progressChanged = <<>>
    /\ called = <<>>
    /\ movementFinished = 0
    /\ tpc = "start"
    /\ ret = "start"
    /\ step = 0
    /\ origin \in StartSpace
    /\ target = origin
    /\ progress = NumSteps
    /\ jammed \in BOOLEAN
    /\ IF op = "safe_move_absolute"
       THEN /\ dest \in DestSpace
            /\ caldone \in {[a \in Axes |-> 3]} \cup
                           (IF variant = "status" THEN {[a \in Axes |-> 0]} ELSE {})
       ELSE /\ dest = <<0, 0, 0>>
            /\ caldone \in [Axes -> {0, 3}]
            /\ origin = <<0, 0, 100>>
    /\ abortRequested = FALSE
    /\ skipped = FALSE
    /\ poslist = <<>>
    /\ samples = <<>>
    /\ sleeps = 0
    /\ emits = 0
    /\ elapsed = 0
    /\ cmds = <<>>
    /\ texit = "none"
    /\ op = "calibrate" => (variant = "position" /\ ~jammed /\ caldone = [a \in Axes |-> 3])

NoTable ==
    /\ progressChanged = <<>>
    /\ called = <<>>
    /\ movementFinished = 0
    /\ variant = "position"
    /\ op = "safe_move_absolute"
    /\ tpc = "start"
    /\ ret = "start"
    /\ step = 0
    /\ origin = <<0, 0, 100>>
    /\ target = <<0, 0, 100>>
    /\ progress = NumSteps
    /\ jammed = FALSE
    /\ dest = <<0, 0, 300>>
    /\ caldone = [a \in Axes |-> 3]
    /\ abortRequested = FALSE
    /\ skipped = FALSE
    /\ poslist = <<>>
    /\ samples = <<>>
    /\ sleeps = 0
    /\ emits = 0
    /\ elapsed = 0
    /\ cmds = <<>>
    /\ texit = "none"

\* Table.safe_move_absolute up to the first wait: the Z retract.  The Table of
\* src/sqc refuses to move when not calibrated.
SafeMoveRetract ==
    /\ op = "safe_move_absolute"
    /\ tpc = "start"
    /\ IF variant = "status" /\ ~is_calibrated
       THEN /\ tpc' = "done"
            /\ texit' = "raised"
            /\ UNCHANGED <<ret, origin, target, progress, poslist, samples, sleeps, emits,
                           elapsed, cmds>>
       ELSE /\ StartMovement("rmove", retract)
            /\ WaitBegin("phase2")
            /\ UNCHANGED texit
    /\ UNCHANGED <<variant, op, step, dest, jammed, caldone, abortRequested, skipped>>
    /\ UNCHANGED calVars
    /\ UNCHANGED <<runVars, dischargeVars, switchVars, ownVars, reqVars, moreVars>>

\* Table.safe_move_absolute between the first and the second wait: X and Y.
SafeMoveXY ==
    /\ op = "safe_move_absolute"
    /\ tpc = "phase2"
    /\ StartMovement("move", xy_move(dest, driver_pos))
    /\ WaitBegin("phase3")
    /\ UNCHANGED <<variant, op, step, dest, jammed, caldone, abortRequested, skipped, texit>>
    /\ UNCHANGED calVars
    /\ UNCHANGED <<runVars, dischargeVars, switchVars, ownVars, reqVars, moreVars>>

\* Table.safe_move_absolute between the second and the third wait: Z.
SafeMoveZ ==
    /\ op = "safe_move_absolute"
    /\ tpc = "phase3"
    /\ StartMovement("rmove", z_move(dest, driver_pos))
    /\ WaitBegin("return")
    /\ UNCHANGED <<variant, op, step, dest, jammed, caldone, abortRequested, skipped, texit>>
    /\ UNCHANGED calVars
    /\ UNCHANGED <<runVars, dischargeVars, switchVars, ownVars, reqVars, moreVars>>

\* Table.safe_move_absolute returns.
SafeMoveReturn ==
    /\ op = "safe_move_absolute"
    /\ tpc = "return"
    /\ tpc' = "done"
    /\ texit' = "returned"
    /\ UNCHANGED <<variant, op, ret, step, dest, origin, target, progress, jammed, caldone,
                   abortRequested, skipped, poslist, samples, sleeps, emits, elapsed, cmds>>
    /\ UNCHANGED calVars
    /\ UNCHANGED <<runVars, dischargeVars, switchVars, ownVars, reqVars, moreVars>>

\* Table.wait_movement_finished of sqc/controller/table.py, one turn of the
\* loop: the timeout check, the sleep, the read, the callback, the comparison.
WaitPosition ==
    /\ variant = "position"
    /\ tpc = "poll"
    /\ UNCHANGED <<origin, target>>
    /\ IF elapsed > poll_timeout
       THEN /\ tpc' = "done"
            /\ texit' = "timeout"
            /\ UNCHANGED <<progress, poslist, samples, sleeps, emits, elapsed>>
       ELSE /\ progress' \in Advance
            /\ elapsed' = elapsed + 1
            /\ sleeps' = sleeps + 1
            /\ samples' = Append(samples, driver_pos')
            /\ emits' = emits + 1
            /\ LET p == Append(poslist, driver_pos') IN
               IF p[1] = p[2]
               THEN /\ poslist' = p
                    /\ tpc' = ret
               ELSE /\ poslist' = pos_pop(p)
                    /\ tpc' = "poll"
            /\ UNCHANGED texit
    /\ UNCHANGED <<variant, op, ret, step, dest, jammed, caldone,
                   abortRequested, skipped, cmds>>
    /\ UNCHANGED calVars
    /\ UNCHANGED <<runVars, dischargeVars, switchVars, ownVars, reqVars, moreVars>>

\* Table.wait_movement_finished of src/sqc/controller/table.py, one turn of
\* the loop: the sleep, the read, the callback, the status bit.  The loop has
\* no timer; the model stops counting after poll_timeout + 2 turns.
WaitStatus ==
    /\ variant = "status"
    /\ tpc = "poll"
    /\ elapsed < poll_timeout + 2
    /\ UNCHANGED <<origin, target>>
    /\ progress' \in Advance
    /\ elapsed' = elapsed + 1
    /\ sleeps' = sleeps + 1
    /\ samples' = Append(samples, driver_pos')
    /\ emits' = IF op = "safe_move_absolute" THEN emits + 1 ELSE emits
    /\ poslist' = <<driver_pos'>>
    /\ tpc' = IF moving' THEN "poll" ELSE ret
    /\ UNCHANGED <<variant, op, ret, step, dest, jammed, caldone,
                   abortRequested, skipped, cmds, texit>>
    /\ UNCHANGED calVars
    /\ UNCHANGED <<runVars, dischargeVars, switchVars, ownVars, reqVars, moreVars>>

\* The axis of each step of requestCalibrate, and the caldone bit the step
\* sets: calibrate z, y, x (ncal), range measure x, y, z (nrm).
CalAxis == <<"z", "y", "x", "x", "y", "z">>

CalBit == <<1, 1, 1, 2, 2, 2>>

\* A requestCalibrate that starts with the X axis.
CalStep_xyz ==
    <<"calibrate_x", "calibrate_y", "calibrate_z",
      "range_measure_x", "range_measure_y", "range_measure_z">>

\* The calls of requestCalibrate, in order.
CalStep ==
    <<"calibrate_z", "calibrate_y", "calibrate_x",
      "range_measure_x", "range_measure_y", "range_measure_z">>

\* TableController.requestAbort
requestAbort ==
    /\ tpc # "done"
    /\ ~abortRequested
    /\ abortRequested' = TRUE
    /\ UNCHANGED <<variant, op, tpc, ret, step, dest, origin, target, progress, jammed,
                   caldone, skipped, poslist, samples, sleeps, emits, elapsed, cmds, texit>>
    /\ UNCHANGED calVars
    /\ UNCHANGED <<runVars, dischargeVars, switchVars, ownVars, reqVars, moreVars>>

\* TableController.requestCalibrate, one of the six guarded blocks: the
\* progressChanged emission and the call of calibrate_z .. range_measure_z.
\* The axis does or does not reach its limit switch, or the call raises and
\* the finally clause runs.  The Table of src/sqc waits for the movement to
\* finish.
CalibrateStep ==
    /\ op = "requestCalibrate"
    /\ tpc = "start"
    /\ step < 6
    /\ step' = step + 1
    /\ IF abortRequested
       THEN /\ skipped' = TRUE
            /\ UNCHANGED <<tpc, ret, caldone, progress, poslist, samples, sleeps, emits,
                           elapsed, texit, abortRequested, calVars>>
       ELSE /\ progressChanged' = Append(progressChanged, <<step, 6, Len(called)>>)
            /\ called' = Append(called, CalStep[step + 1])
            /\ \E o \in {"ok", "raised"} :
                IF o = "raised"
                THEN /\ tpc' = "done"
                     /\ texit' = "raised"
                     /\ abortRequested' = FALSE
                     /\ movementFinished' = movementFinished + 1
                     /\ UNCHANGED <<ret, caldone, progress, poslist, samples, sleeps,
                                    emits, elapsed>>
                ELSE /\ \E done \in BOOLEAN :
                          caldone' = [caldone EXCEPT ![CalAxis[step + 1]] =
                                        IF done /\ (@ \div CalBit[step + 1]) % 2 = 0
                                        THEN @ + CalBit[step + 1] ELSE @]
                     /\ IF variant = "status"
                        THEN /\ progress' = 0
                             /\ WaitBegin("start")
                        ELSE UNCHANGED <<tpc, ret, progress, poslist, samples, sleeps,
                                         emits, elapsed>>
                     /\ UNCHANGED <<texit, abortRequested, movementFinished>>
            /\ UNCHANGED skipped
    /\ UNCHANGED <<variant, op, dest, origin, target, jammed, cmds>>
    /\ UNCHANGED <<runVars, dischargeVars, switchVars, ownVars, reqVars, moreVars>>

\* A requestCalibrate that checks is_calibrated whether aborted or not.
CalibrateVerify_always ==
    /\ op = "requestCalibrate"
    /\ tpc = "start"
    /\ step = 6
    /\ step' = 7
    /\ tpc' = "done"
    /\ skipped' = (skipped \/ abortRequested)
    /\ progressChanged' = IF abortRequested THEN progressChanged
                          ELSE Append(progressChanged, <<6, 6, Len(called)>>)
    /\ called' = IF abortRequested THEN called ELSE Append(called, "is_calibrated")
    /\ texit' = IF ~is_calibrated THEN "raised" ELSE "returned"
    /\ abortRequested' = FALSE
    /\ movementFinished' = movementFinished + 1
    /\ UNCHANGED <<variant, op, ret, dest, origin, target, progress, jammed, caldone,
                   poslist, samples, sleeps, emits, elapsed, cmds>>
    /\ UNCHANGED <<runVars, dischargeVars, switchVars, ownVars, reqVars, moreVars>>

\* TableController.requestCalibrate, the end: the last emission and
\* is_calibrated unless abortRequested, and the finally clause, which resets
\* abortRequested and emits movementFinished.
CalibrateVerify ==
    /\ op = "requestCalibrate"
    /\ tpc = "start"
    /\ step = 6
    /\ step' = 7
    /\ tpc' = "done"
    /\ skipped' = (skipped \/ abortRequested)
    /\ progressChanged' = IF abortRequested THEN progressChanged
                          ELSE Append(progressChanged, <<6, 6, Len(called)>>)
    /\ called' = IF abortRequested THEN called ELSE Append(called, "is_calibrated")
    /\ texit' = IF ~abortRequested /\ ~is_calibrated THEN "raised" ELSE "returned"
    /\ abortRequested' = FALSE
    /\ movementFinished' = movementFinished + 1
    /\ UNCHANGED <<variant, op, ret, dest, origin, target, progress, jammed, caldone,
                   poslist, samples, sleeps, emits, elapsed, cmds>>
    /\ UNCHANGED <<runVars, dischargeVars, switchVars, ownVars, reqVars, moreVars>>

\* The calls of NeedleController.calibrate, in order.
NeedleStep ==
    <<"needles_calibrate", "needles_range_measure", "needles_verify_calibration",
      "needles_down">>

\* NeedleController.calibrate, one of the four guarded blocks: the
\* progressChanged emission and the call, which returns or raises (the finally
\* clause runs); the last block ends with the emission of (4, 4).
calibrate ==
    /\ op = "calibrate"
    /\ tpc = "start"
    /\ step < 4
    /\ step' = step + 1
    /\ IF abortRequested
       THEN /\ skipped' = TRUE
            /\ UNCHANGED <<tpc, texit, abortRequested, calVars>>
       ELSE /\ called' = Append(called, NeedleStep[step + 1])
            /\ \E o \in {"ok", "raised"} :
                IF o = "raised"
                THEN /\ progressChanged' = Append(progressChanged, <<step, 4, Len(called)>>)
                     /\ tpc' = "done"
                     /\ texit' = "raised"
                     /\ abortRequested' = FALSE
                     /\ movementFinished' = movementFinished + 1
                ELSE /\ progressChanged' =
                            Append(progressChanged, <<step, 4, Len(called)>>) \o
                            (IF step = 3 THEN <<<<4, 4, Len(called')>>>> ELSE <<>>)
                     /\ UNCHANGED <<tpc, texit, abortRequested, movementFinished>>
            /\ UNCHANGED skipped
    /\ UNCHANGED <<variant, op, ret, dest, origin, target, progress, jammed, caldone,
                   poslist, samples, sleeps, emits, elapsed, cmds>>
    /\ UNCHANGED <<runVars, dischargeVars, switchVars, ownVars, reqVars, moreVars>>

\* TableController.requestCalibrate after moveAbsolute: the request of the
\* move has returned and the worker takes the request of the calibration.
\* abortRequested is as the move left it.
requestCalibrate ==
    /\ op = "safe_move_absolute"
    /\ tpc = "done"
    /\ texit = "returned"
    /\ op' = "requestCalibrate"
    /\ tpc' = "start"
    /\ ret' = "start"
    /\ step' = 0
    /\ skipped' = FALSE
    /\ poslist' = <<>>
    /\ samples' = <<>>
    /\ sleeps' = 0
    /\ emits' = 0
    /\ elapsed' = 0
    /\ cmds' = <<>>
    /\ texit' = "none"
    /\ UNCHANGED <<variant, dest, origin, target, progress, jammed, caldone, abortRequested>>
    /\ UNCHANGED calVars
    /\ UNCHANGED <<runVars, dischargeVars, switchVars, ownVars, reqVars, moreVars>>

\* A calibrate whose finally clause emits nothing.
calibrateFinally_silent ==
    /\ op = "calibrate"
    /\ tpc = "start"
    /\ step = 4
    /\ step' = 5
    /\ tpc' = "done"
    /\ texit' = "returned"
    /\ abortRequested' = FALSE
    /\ UNCHANGED <<variant, op, ret, dest, origin, target, progress, jammed, caldone,
                   skipped, poslist, samples, sleeps, emits, elapsed, cmds, calVars>>
    /\ UNCHANGED <<runVars, dischargeVars, switchVars, ownVars, reqVars, moreVars>>

\* NeedleController.calibrate, the finally clause.
calibrateFinally ==
    /\ op = "calibrate"
    /\ tpc = "start"
    /\ step = 4
    /\ step' = 5
    /\ tpc' = "done"
    /\ texit' = "returned"
    /\ abortRequested' = FALSE
    /\ movementFinished' = movementFinished + 1
    /\ UNCHANGED <<variant, op, ret, dest, origin, target, progress, jammed, caldone,
                   skipped, poslist, samples, sleeps, emits, elapsed, cmds,
                   progressChanged, called>>
    /\ UNCHANGED <<runVars, dischargeVars, switchVars, ownVars, reqVars, moreVars>>

NextTable ==
    \/ SafeMoveRetract
    \/ SafeMoveXY
    \/ SafeMoveZ
    \/ SafeMoveReturn
    \/ WaitPosition
    \/ WaitStatus
    \/ requestAbort
    \/ CalibrateStep
    \/ CalibrateVerify
    \/ calibrate
    \/ calibrateFinally
    \/ requestCalibrate

(***************************************************************************)
(* Station.smu_ramp_voltage and Station.bias_ramp_voltage (station.py).    *)
(***************************************************************************)
MaxVolt == 3

Volts == (0 - MaxVolt)..MaxVolt

\* LinearRange(begin, end, step) of comet.functions: begin, then steps of
\* magnitude step towards end, the last value being end itself.
RECURSIVE LinearRange(_, _, _)
LinearRange(begin, end, stp) ==
    IF abs(end - begin) <= stp
    THEN (IF begin = end THEN <<end>> ELSE <<begin, end>>)
    ELSE <<begin>> \o LinearRange(IF end > begin THEN begin + stp ELSE begin - stp, end, stp)

\* A ramp that never sets the range before its first step.
raises_magnitude_never(begin, end) == FALSE

\* smu_ramp_voltage, line 378: abs(voltage_end) >= abs(voltage_begin)
raises_magnitude(begin, end) == abs(end) >= abs(begin)

\* A source at some level, its range covering the level, and a ramp called.
InitRamp ==
    /\ rpc = "start"
    /\ source \in {"smu", "bias_smu"}
    /\ voltage_level \in Volts
    /\ voltage_range \in abs(voltage_level)..MaxVolt
    /\ voltage_begin = 0
    /\ voltage_end \in Volts
    /\ voltage_step \in 1..2
    /\ ramp_values = <<>>
    /\ range0 = voltage_range
    /\ applied = <<>>
    /\ rexit = "none"

\* No ramp is going on.
NoRamp ==
    /\ rpc = "start"
    /\ source = "smu"
    /\ voltage_level = 0
    /\ voltage_range = 0
    /\ voltage_begin = 0
    /\ voltage_end = 0
    /\ voltage_step = 1
    /\ ramp_values = <<>>
    /\ range0 = 0
    /\ applied = <<>>
    /\ rexit = "none"

\* smu_ramp_voltage / bias_ramp_voltage, lines 375-379: the level is read, the
\* LinearRange made, and the range set to abs(voltage_end) if the magnitude
\* does not decrease.
ramp_voltage ==
    /\ rpc = "start"
    /\ rpc' = "ramp"
    /\ voltage_begin' = voltage_level
    /\ ramp_values' = LinearRange(voltage_level, voltage_end, voltage_step)
    /\ voltage_range' = IF raises_magnitude(voltage_level, voltage_end)
                        THEN abs(voltage_end) ELSE voltage_range
    /\ UNCHANGED <<source, voltage_level, voltage_end, voltage_step, range0, applied, rexit>>
    /\ UNCHANGED <<runVars, benchVars, safeVars, patVars, joinVars, lateVars>>

\* One turn of the loop: before_step (which can raise), set_voltage, the
\* sleep, after_step (which can raise).
ramp_step ==
    /\ rpc = "ramp"
    /\ ramp_values # <<>>
    /\ \E o \in {"ok", "before_step", "after_step"} :
        /\ IF o = "before_step"
           THEN UNCHANGED <<voltage_level, applied>>
           ELSE /\ voltage_level' = Head(ramp_values)
                /\ applied' = Append(applied, <<Head(ramp_values), voltage_range>>)
        /\ IF o = "ok"
           THEN rpc' = rpc /\ rexit' = rexit /\ ramp_values' = Tail(ramp_values)
           ELSE rpc' = "done" /\ rexit' = "raised" /\ ramp_values' = ramp_values
    /\ UNCHANGED <<source, voltage_range, voltage_begin, voltage_end, voltage_step, range0>>
    /\ UNCHANGED <<runVars, benchVars, safeVars, patVars, joinVars, lateVars>>

\* Line 395, after the loop: the range is set to abs(voltage_end).
ramp_return ==
    /\ rpc = "ramp"
    /\ ramp_values = <<>>
    /\ rpc' = "done"
    /\ rexit' = "returned"
    /\ voltage_range' = abs(voltage_end)
    /\ UNCHANGED <<source, voltage_level, voltage_begin, voltage_end, voltage_step, ramp_values,
                   range0, applied>>
    /\ UNCHANGED <<runVars, benchVars, safeVars, patVars, joinVars, lateVars>>

NextRamp ==
    \/ ramp_voltage
    \/ ramp_step
    \/ ramp_return

(***************************************************************************)
(* Station.safe_initialize (station.py).                                   *)
(***************************************************************************)
\* A safe_initialize that validates the box before anything else.
safe_initialize_steps_validate_first ==
    <<"box_validate_state", "check_identities", "safe_recover_box", "safe_recover_smu",
      "safe_recover_bias_smu", "hv_switch_release", "lv_switch_release",
      "safe_initialize_smu", "safe_initialize_bias_smu", "safe_initialize_lcr",
      "safe_initialize_elm", "safe_discharge">>

\* safe_initialize, lines 122-133: the calls it makes, in order.
safe_initialize_steps ==
    <<"check_identities", "safe_recover_box", "safe_recover_smu", "safe_recover_bias_smu",
      "hv_switch_release", "lv_switch_release", "safe_initialize_smu",
      "safe_initialize_bias_smu", "safe_initialize_lcr", "safe_initialize_elm",
      "safe_discharge", "box_validate_state">>

\* The bench as safe_initialize can find it: a registered resource missing,
\* the outputs of the sources on, channels of the matrices closed, relays
\* that do not open, the box door open, the box light on.
BenchSpace ==
    [missing : BOOLEAN, smu : BOOLEAN, bias : BOOLEAN, hv : BOOLEAN, lv : BOOLEAN,
     stuck : BOOLEAN, door : BOOLEAN, light : BOOLEAN]

\* The checks inside the steps: check_identities (a resource is missing),
\* hv/lv_switch_release (channels still closed), box_validate_state (door
\* open, light on).
step_raises(name, b) ==
    CASE name = "check_identities" -> b.missing
      [] name = "hv_switch_release" -> b.hv
      [] name = "lv_switch_release" -> b.lv
      [] name = "box_validate_state" -> b.door \/ b.light
      [] OTHER -> FALSE

\* What a step does to the bench before its check, if it has one.
step_effect(name, b) ==
    CASE name = "safe_recover_box" -> [b EXCEPT !.light = FALSE]
      [] name = "safe_recover_smu" -> [b EXCEPT !.smu = FALSE]
      [] name \in {"safe_recover_bias_smu", "safe_discharge"} -> [b EXCEPT !.bias = FALSE]
      [] name = "hv_switch_release" -> [b EXCEPT !.hv = b.hv /\ b.stuck]
      [] name = "lv_switch_release" -> [b EXCEPT !.lv = b.lv /\ b.stuck]
      [] OTHER -> b

\* safe_initialize is called on some bench.
InitSafe ==
    /\ ipc = 1
    /\ ran = <<>>
    /\ instr \in BenchSpace
    /\ iexit = "none"

\* safe_initialize is not running.
NoSafe ==
    /\ ipc = 1
    /\ ran = <<>>
    /\ instr = [missing |-> FALSE, smu |-> FALSE, bias |-> FALSE, hv |-> FALSE,
                lv |-> FALSE, stuck |-> FALSE, door |-> FALSE, light |-> FALSE]
    /\ iexit = "none"

\* safe_initialize, one of its calls: the step returns, or it raises (its own
\* check, or an instrument that does not answer) and safe_initialize is left.
safe_initialize ==
    /\ iexit = "none"
    /\ ipc <= Len(safe_initialize_steps)
    /\ LET name == safe_initialize_steps[ipc] IN
        /\ ran' = Append(ran, name)
        /\ \E o \in {"ok", "io_error"} :
            /\ instr' = IF o = "ok" THEN step_effect(name, instr) ELSE instr
            /\ IF o = "ok" /\ ~step_raises(name, instr')
               THEN /\ ipc' = ipc + 1
                    /\ iexit' = IF ipc = Len(safe_initialize_steps) THEN "returned" ELSE "none"
               ELSE /\ ipc' = ipc
                    /\ iexit' = "raised"
    /\ UNCHANGED <<runVars, benchVars, rampVars, patVars, joinVars, lateVars>>

NextSafe == safe_initialize

(***************************************************************************)
(* SequenceStrategy.reset_sequence and calculate_strip_pattern             *)
(* (strategy.py), parse_strips (core/utils.py).                            *)
(***************************************************************************)
MaxInterval == 3

\* The pads of the padfile, in file order.
all_strips == [k \in 1..NumStrips |-> k]

\* An enumerate that counts from one.
pad_index_from_one(k) == k

\* enumerate(all_strips): the index of the k-th pad.
pad_index(k) == k - 1

\* extract_slice: names[start_index : end_index + 1]
extract_slice(names, first, last) ==
    LET index(x) == CHOOSE j \in 1..Len(names) : names[j] = x
    IN  {names[k] : k \in index(first)..index(last)}

\* parse_strips: the names of all slices of the expression, sorted by
\* names.index.
parse_strips(names, expr) ==
    SelectSeq(names, LAMBDA n :
        \E r \in 1..Len(expr) : n \in extract_slice(names, expr[r][1], expr[r][2]))

\* enabled_items(item.allChildren())
enabled_items(en) == SelectSeq([c \in 1..NumChildren |-> c], LAMBDA c : en[c])

\* calculate_strip_pattern, lines 176-180: for every pad that is selected,
\* the enabled sub-items whose interval divides the index of the pad; a pad
\* without sub-item gets no entry.
calculate_strip_pattern(expr, en, ivl) ==
    LET sel == parse_strips(all_strips, expr)
        attached(k) == SelectSeq(enabled_items(en),
                                 LAMBDA c : pad_index(k) % ivl[c] = 0)
        entries == [k \in 1..Len(all_strips) |-> <<all_strips[k], attached(k)>>]
    IN  SelectSeq(entries, LAMBDA e :
            /\ \E j \in 1..Len(sel) : sel[j] = e[1]
            /\ e[2] # <<>>)

\* The expressions of item.strips(): nothing, one range, or a range and a
\* single strip.
ExprSpace ==
    LET Ranges == {r \in Strips \X Strips : r[1] <= r[2]}
    IN  {<<>>} \cup {<<r>> : r \in Ranges}
               \cup {<<r, <<k, k>>>> : r \in Ranges, k \in Strips}

\* A sequence as the operator left it, the states those of an earlier run.
InitPattern ==
    /\ ppc = "start"
    /\ enabled \in [Items -> BOOLEAN]
    /\ intervals \in [Children -> 1..MaxInterval]
    /\ strips_expr \in ExprSpace
    /\ item_state = [i \in Items |-> "Success"]
    /\ pattern = <<>>

\* No sequence is looked at.
NoPattern ==
    /\ ppc = "start"
    /\ enabled = [i \in Items |-> TRUE]
    /\ intervals = [c \in Children |-> 1]
    /\ strips_expr = <<>>
    /\ item_state = [i \in Items |-> "Success"]
    /\ pattern = <<>>

\* SequenceStrategy.reset_sequence
reset_sequence ==
    /\ ppc = "start"
    /\ ppc' = "reset"
    /\ item_state' = [i \in Items |-> reset_state(enabled, i)]
    /\ UNCHANGED <<enabled, intervals, strips_expr, pattern>>
    /\ UNCHANGED <<runVars, benchVars, rampVars, safeVars, joinVars, lateVars>>

\* handle_strip_items, line 388: calculate_strip_pattern(item) is called.
strip_pattern ==
    /\ ppc = "reset"
    /\ ppc' = "done"
    /\ pattern' = calculate_strip_pattern(strips_expr, enabled, intervals)
    /\ UNCHANGED <<enabled, intervals, strips_expr, item_state>>
    /\ UNCHANGED <<runVars, benchVars, rampVars, safeVars, joinVars, lateVars>>

NextPattern ==
    \/ reset_sequence
    \/ strip_pattern

(***************************************************************************)
(* SequenceController.start/shutdown/run (view/sequence.py) and            *)
(* TableController.shutdown with its event loop (controller/table.py).     *)
(***************************************************************************)
\* The application is up: the worker of the TableController runs, and a
\* measurement run was started or not.
InitJoin ==
    /\ sthread \in BOOLEAN
    /\ jrun = IF sthread THEN "strategy" ELSE "not_started"
    /\ jshut = "idle"
    /\ jabort = FALSE
    /\ jfailed = FALSE
    /\ cstop = FALSE
    /\ cworker = "waiting"
    /\ cshut = "idle"

\* No thread of the application is looked at.
NoJoin ==
    /\ sthread = FALSE
    /\ jrun = "not_started"
    /\ jshut = "idle"
    /\ jabort = FALSE
    /\ jfailed = FALSE
    /\ cstop = FALSE
    /\ cworker = "waiting"
    /\ cshut = "idle"

\* SequenceController.run, lines 361-365: SequenceStrategy(...)(sequence)
\* returns, at the end of the sequence or after an abort request, or it
\* raises and failed is emitted.
run_return ==
    /\ jrun = "strategy"
    /\ jrun' = "finally"
    /\ \E o \in {"ok", "raised"} : jfailed' = (o = "raised")
    /\ UNCHANGED <<sthread, jshut, jabort, cstop, cworker, cshut>>
    /\ UNCHANGED <<runVars, benchVars, rampVars, safeVars, patVars, lateVars>>

\* SequenceController.run, the finally clause: finished.emit() and
\* self._thread = None.
run_finally ==
    /\ jrun = "finally"
    /\ jrun' = "returning"
    /\ sthread' = FALSE
    /\ UNCHANGED <<jshut, jabort, cstop, cworker, cshut, jfailed>>
    /\ UNCHANGED <<runVars, benchVars, rampVars, safeVars, patVars, lateVars>>

\* run returns and the thread ends.
run_exit ==
    /\ jrun = "returning"
    /\ jrun' = "terminated"
    /\ UNCHANGED <<sthread, jshut, jabort, cstop, cworker, cshut, jfailed>>
    /\ UNCHANGED <<runVars, benchVars, rampVars, safeVars, patVars, lateVars>>

\* SequenceController.shutdown, lines 355-356: request_abort and the test
\* `if self._thread`.
SequenceController_shutdown ==
    /\ jshut = "idle"
    /\ jabort' = TRUE
    /\ jshut' = IF sthread THEN "tested" ELSE "returned"
    /\ UNCHANGED <<sthread, jrun, cstop, cworker, cshut, jfailed>>
    /\ UNCHANGED <<runVars, benchVars, rampVars, safeVars, patVars, lateVars>>

\* SequenceController.shutdown, line 357: self._thread is read again and
\* join is called on it; on None this raises AttributeError.
SequenceController_join ==
    /\ jshut = "tested"
    /\ jshut' = IF sthread THEN "joining" ELSE "raised"
    /\ UNCHANGED <<sthread, jrun, jabort, cstop, cworker, cshut, jfailed>>
    /\ UNCHANGED <<runVars, benchVars, rampVars, safeVars, patVars, lateVars>>

\* join returns when the thread has ended; line 358: self._thread = None.
SequenceController_joined ==
    /\ jshut = "joining"
    /\ jrun = "terminated"
    /\ jshut' = "returned"
    /\ sthread' = FALSE
    /\ UNCHANGED <<jrun, jabort, cstop, cworker, cshut, jfailed>>
    /\ UNCHANGED <<runVars, benchVars, rampVars, safeVars, patVars, lateVars>>

\* TableController.eventLoop/enterContext: a turn of the loop is begun,
\* _shutdown not being set.
eventLoop_turn ==
    /\ cworker = "waiting"
    /\ ~cstop
    /\ cworker' = "handling"
    /\ UNCHANGED <<sthread, jrun, jshut, jabort, cstop, cshut, jfailed>>
    /\ UNCHANGED <<runVars, benchVars, rampVars, safeVars, patVars, lateVars>>

\* The turn ends: the queue was empty or the request is done.
eventLoop_turned ==
    /\ cworker = "handling"
    /\ cworker' = "waiting"
    /\ UNCHANGED <<sthread, jrun, jshut, jabort, cstop, cshut, jfailed>>
    /\ UNCHANGED <<runVars, benchVars, rampVars, safeVars, patVars, lateVars>>

\* The loop finds _shutdown set: eventLoop returns and the thread ends.
eventLoop_return ==
    /\ cworker = "waiting"
    /\ cstop
    /\ cworker' = "exited"
    /\ UNCHANGED <<sthread, jrun, jshut, jabort, cstop, cshut, jfailed>>
    /\ UNCHANGED <<runVars, benchVars, rampVars, safeVars, patVars, lateVars>>

\* TableController.shutdown, lines 156-157: _shutdown.set() and the call of
\* _thread.join().
TableController_shutdown ==
    /\ cshut = "idle"
    /\ cstop' = TRUE
    /\ cshut' = "joining"
    /\ UNCHANGED <<sthread, jrun, jshut, jabort, cworker, jfailed>>
    /\ UNCHANGED <<runVars, benchVars, rampVars, safeVars, patVars, lateVars>>

\* join returns when the worker thread has ended.
TableController_joined ==
    /\ cshut = "joining"
    /\ cworker = "exited"
    /\ cshut' = "returned"
    /\ UNCHANGED <<sthread, jrun, jshut, jabort, cstop, cworker, jfailed>>
    /\ UNCHANGED <<runVars, benchVars, rampVars, safeVars, patVars, lateVars>>

NextJoin ==
    \/ run_return
    \/ run_finally
    \/ run_exit
    \/ SequenceController_shutdown
    \/ SequenceController_join
    \/ SequenceController_joined
    \/ eventLoop_turn
    \/ eventLoop_turned
    \/ eventLoop_return
    \/ TableController_shutdown
    \/ TableController_joined

(***************************************************************************)
(* EnvironController: the cached snapshot (controller/environ.py).  A      *)
(* dictionary is a function on Keys, 0 standing for a key that is absent;  *)
(* the n-th get_data returns the value n for every key.                    *)
(***************************************************************************)
NumKeys == 2
MaxRefresh == 3

Keys == 1..NumKeys

empty_dict == [k \in Keys |-> 0]

\* The dictionary self._data, and the one copy.deepcopy allocates.
DataObj == 1
CopyObj == 2

InitSnap ==
    /\ slock = "free"
    /\ heap = [o \in {DataObj, CopyObj} |-> empty_dict]
    /\ sref = 0
    /\ rdpc = "idle"
    /\ rkeys = {}
    /\ changed_data = <<>>
    /\ gpc = "idle"
    /\ gkeys = {}
    /\ wkpc = "serve"
    /\ refreshes = 0

NoSnap == InitSnap

\* snapshot, line 44: the lock is taken; deepcopy allocates its dictionary.
snapshot ==
    /\ rdpc = "idle"
    /\ slock = "free"
    /\ slock' = "caller"
    /\ rdpc' = "copy"
    /\ rkeys' = Keys
    /\ heap' = [heap EXCEPT ![CopyObj] = empty_dict]
    /\ sref' = 0
    /\ UNCHANGED <<changed_data, gpc, gkeys, wkpc, refreshes>>
    /\ UNCHANGED <<runVars, benchVars, rampVars, safeVars, patVars, joinVars, insVars>>

\* snapshot, line 45: deepcopy copies one more entry of self._data.
snapshot_copy ==
    /\ rdpc = "copy"
    /\ rkeys # {}
    /\ LET k == CHOOSE j \in rkeys : \A i \in rkeys : j <= i
       IN  /\ heap' = [heap EXCEPT ![CopyObj][k] = heap[DataObj][k]]
           /\ rkeys' = rkeys \ {k}
    /\ UNCHANGED <<slock, sref, rdpc, changed_data, gpc, gkeys, wkpc, refreshes>>
    /\ UNCHANGED <<runVars, benchVars, rampVars, safeVars, patVars, joinVars, insVars>>

\* snapshot, line 45: the copy is returned; the lock is released.
snapshot_return ==
    /\ rdpc = "copy"
    /\ rkeys = {}
    /\ sref' = CopyObj
    /\ slock' = "free"
    /\ rdpc' = "returned"
    /\ UNCHANGED <<heap, rkeys, changed_data, gpc, gkeys, wkpc, refreshes>>
    /\ UNCHANGED <<runVars, benchVars, rampVars, safeVars, patVars, joinVars, insVars>>

\* The caller changes an entry of the dictionary it was given
\* (Station.box_environment hands it to the plugins).
box_environment ==
    /\ rdpc = "returned"
    /\ \E k \in Keys : heap' = [heap EXCEPT ![sref][k] = -1]
    /\ rdpc' = "changed"
    /\ UNCHANGED <<slock, sref, rkeys, changed_data, gpc, gkeys, wkpc, refreshes>>
    /\ UNCHANGED <<runVars, benchVars, rampVars, safeVars, patVars, joinVars, insVars>>

\* The caller is done with the dictionary.
box_environment_done ==
    /\ rdpc \in {"returned", "changed"}
    /\ rdpc' = "idle"
    /\ sref' = 0
    /\ UNCHANGED <<slock, heap, rkeys, changed_data, gpc, gkeys, wkpc, refreshes>>
    /\ UNCHANGED <<runVars, benchVars, rampVars, safeVars, patVars, joinVars, insVars>>

\* _pc_data, line 48: the worker asks the hardware for its data.
pc_data_get ==
    /\ wkpc = "serve"
    /\ refreshes < MaxRefresh
    /\ refreshes' = refreshes + 1
    /\ wkpc' = "get_data"
    /\ UNCHANGED <<slock, heap, sref, rdpc, rkeys, changed_data, gpc, gkeys>>
    /\ UNCHANGED <<runVars, benchVars, rampVars, safeVars, patVars, joinVars, insVars>>

\* _pc_data, lines 48-50: get_data returns and dataChanged is changed_data, or it
\* raises and eventLoop goes to its except clause.
pc_data_emit ==
    /\ wkpc = "get_data"
    /\ \E o \in {"ok", "raised"} :
          IF o = "ok"
          THEN /\ changed_data' = Append(changed_data, refreshes)
               /\ wkpc' = "serve"
          ELSE /\ wkpc' = "except"
               /\ UNCHANGED changed_data
    /\ UNCHANGED <<slock, heap, sref, rdpc, rkeys, gpc, gkeys, refreshes>>
    /\ UNCHANGED <<runVars, benchVars, rampVars, safeVars, patVars, joinVars, insVars>>

\* reset, line 36, called by eventLoop at line 110: the lock is taken.
reset ==
    /\ wkpc = "except"
    /\ slock = "free"
    /\ slock' = "worker"
    /\ wkpc' = "reset"
    /\ UNCHANGED <<heap, sref, rdpc, rkeys, changed_data, gpc, gkeys, refreshes>>
    /\ UNCHANGED <<runVars, benchVars, rampVars, safeVars, patVars, joinVars, insVars>>

\* reset, line 37: self._data.clear(); the lock is released.
reset_clear ==
    /\ wkpc = "reset"
    /\ heap' = [heap EXCEPT ![DataObj] = empty_dict]
    /\ slock' = "free"
    /\ wkpc' = "sleep"
    /\ UNCHANGED <<sref, rdpc, rkeys, changed_data, gpc, gkeys, refreshes>>
    /\ UNCHANGED <<runVars, benchVars, rampVars, safeVars, patVars, joinVars, insVars>>

\* eventLoop, line 112: time.sleep(4.0), and the resource is created again.
eventLoop_sleep ==
    /\ wkpc = "sleep"
    /\ wkpc' = "serve"
    /\ UNCHANGED <<slock, heap, sref, rdpc, rkeys, changed_data, gpc, gkeys, refreshes>>
    /\ UNCHANGED <<runVars, benchVars, rampVars, safeVars, patVars, joinVars, insVars>>

\* _pc_data_available without `with self._lock`.
pc_data_available_unlocked ==
    /\ gpc = "idle"
    /\ changed_data # <<>>
    /\ gpc' = "update"
    /\ gkeys' = Keys
    /\ UNCHANGED <<slock, heap, sref, rdpc, rkeys, changed_data, wkpc, refreshes>>
    /\ UNCHANGED <<runVars, benchVars, rampVars, safeVars, patVars, joinVars, insVars>>

\* _pc_data_available, line 53: the slot is called with the changed_data data and
\* takes the lock.
pc_data_available ==
    /\ gpc = "idle"
    /\ changed_data # <<>>
    /\ slock = "free"
    /\ slock' = "slot"
    /\ gpc' = "update"
    /\ gkeys' = Keys
    /\ UNCHANGED <<heap, sref, rdpc, rkeys, changed_data, wkpc, refreshes>>
    /\ UNCHANGED <<runVars, benchVars, rampVars, safeVars, patVars, joinVars, insVars>>

\* _pc_data_available, line 54: update writes one more entry.
pc_data_update ==
    /\ gpc = "update"
    /\ gkeys # {}
    /\ LET k == CHOOSE j \in gkeys : \A i \in gkeys : j <= i
       IN  /\ heap' = [heap EXCEPT ![DataObj][k] = Head(changed_data)]
           /\ gkeys' = gkeys \ {k}
    /\ UNCHANGED <<slock, sref, rdpc, rkeys, changed_data, gpc, wkpc, refreshes>>
    /\ UNCHANGED <<runVars, benchVars, rampVars, safeVars, patVars, joinVars, insVars>>

\* _pc_data_available returns; the lock, if held, is released.
pc_data_updated ==
    /\ gpc = "update"
    /\ gkeys = {}
    /\ changed_data' = Tail(changed_data)
    /\ slock' = IF slock = "slot" THEN "free" ELSE slock
    /\ gpc' = "idle"
    /\ UNCHANGED <<heap, sref, rdpc, rkeys, gkeys, wkpc, refreshes>>
    /\ UNCHANGED <<runVars, benchVars, rampVars, safeVars, patVars, joinVars, insVars>>

NextSnap ==
    \/ snapshot
    \/ snapshot_copy
    \/ snapshot_return
    \/ box_environment
    \/ box_environment_done
    \/ pc_data_get
    \/ pc_data_emit
    \/ reset
    \/ reset_clear
    \/ eventLoop_sleep
    \/ pc_data_available
    \/ pc_data_update
    \/ pc_data_updated

(***************************************************************************)
(* The rows of the measurements: Context.insert_data.  A data key stands   *)
(* for one (namespace, type, name); every measurement gives its rows with  *)
(* one sortkey ("index" or "strip_index"), and a row carries the value of  *)
(* its sortkey and the time it was taken.                                  *)
(***************************************************************************)
NumDataKeys == 2
NumSortKeys == 3
MaxInserts == 4

DataKeys == 1..NumDataKeys
SortKeys == 1..NumSortKeys

\* {item.get(sortkey): item for item in items}: a later item replaces an
\* earlier one of the same sortkey.
list_to_dict(items) ==
    [k \in {items[i].sortkey : i \in DOMAIN items} |->
        LET last == CHOOSE i \in DOMAIN items :
                        /\ items[i].sortkey = k
                        /\ \A j \in DOMAIN items : items[j].sortkey = k => j <= i
        IN  items[last]]

\* sorted(d.values(), key=...): the values of a dictionary, ascending.
RECURSIVE sorted(_)
sorted(values) ==
    IF values = {} THEN <<>>
    ELSE LET first == CHOOSE r \in values : \A q \in values : r.sortkey <= q.sortkey
         IN  <<first>> \o sorted(values \ {first})

\* A variant that adds the row at the end of the list.
auto_insert_item_append(items, row) == Append(items, row)

auto_insert_item(items, row) ==
    LET d  == list_to_dict(items)
        d2 == [k \in DOMAIN d \cup {row.sortkey} |->
                  IF k = row.sortkey THEN row ELSE d[k]]
    IN  sorted({d2[k] : k \in DOMAIN d2})

InitInsert ==
    /\ cdata = <<>>
    /\ ninserts = 0
    /\ latest = [n \in DataKeys |-> [k \in SortKeys |-> 0]]

NoIns == InitInsert

Context_insert_data ==
    /\ ninserts < MaxInserts
    /\ \E n \in DataKeys, k \in SortKeys :
          LET items == IF n \in DOMAIN cdata THEN cdata[n] ELSE <<>>
              row   == [sortkey |-> k, timestamp |-> ninserts + 1]
          IN  /\ cdata' = [m \in DOMAIN cdata \cup {n} |->
                              IF m = n THEN auto_insert_item(items, row) ELSE cdata[m]]
              /\ latest' = [latest EXCEPT ![n][k] = ninserts + 1]
    /\ ninserts' = ninserts + 1
    /\ UNCHANGED <<runVars, benchVars, rampVars, safeVars, patVars, joinVars, snapVars>>

NextInsert == Context_insert_data

NoLate == NoSnap /\ NoIns

\* Nothing of the operations below is going on.
NoMore == NoRamp /\ NoSafe /\ NoPattern /\ NoJoin /\ NoLate

(***************************************************************************)
(* The specifications.                                                     *)
(***************************************************************************)
\* The bench at rest.
NoBench == NoDischarge /\ NoSwitch /\ InitOwn /\ NoReq /\ NoTable

\* A measurement run.
Init == InitRun /\ NoDischarge /\ NoSwitch /\ InitOwn /\ NoReq /\ NoTable /\ NoMore

Next == NextRun


Spec == Init /\ [][Next]_vars

\* A measurement run that the operator can suspend and continue: valid
\* parameters, no remeasurement, at most one recontact, and a bench on which
\* at most the first measurement goes wrong.
InitSuspend ==
    /\ InitRun
    /\ validate_sequence
    /\ params.remeasure_count = 0
    /\ params.recontact_count <= 1
    /\ plan.count <= 1
    /\ plan.item # Parent => plan.item = 1
    /\ data = <<>>
    /\ NoBench /\ NoMore

NextSuspend ==
    \/ NextRun
    \/ handle_suspend
    \/ request_suspend
    \/ request_continue

SpecSuspend == InitSuspend /\ [][NextSuspend]_vars

\* The steps of the orchestrator thread.
Orchestrator == NextSuspend /\ abort' = abort /\ suspend' = suspend

\* The orchestrator thread is scheduled as long as it has a step to make.
SpecSuspendFair == SpecSuspend /\ WF_vars(Orchestrator)

\* One call of CapacitorDischarge.
DischargeInit == NoRun /\ InitDischarge /\ NoSwitch /\ InitOwn /\ NoReq /\ NoTable /\ NoMore

SpecDischarge == DischargeInit /\ [][NextDischarge]_vars

\* One call of hv_switch_apply or lv_switch_apply.
SwitchInit == NoRun /\ NoDischarge /\ InitSwitch /\ InitOwn /\ NoReq /\ NoTable /\ NoMore

SpecSwitch == SwitchInit /\ [][NextSwitch]_vars

\* The threads of the application around the alignment dialog.
OwnInit == NoRun /\ NoDischarge /\ NoSwitch /\ InitOwn /\ NoReq /\ NoTable /\ NoMore

SpecOwn == OwnInit /\ [][NextOwn]_vars

\* The workers of the three controllers and their callers.
ReqInit == NoRun /\ NoDischarge /\ NoSwitch /\ InitOwn /\ InitReq /\ NoTable /\ NoMore

SpecReq == ReqInit /\ [][NextReq]_vars

\* One operation on the Table.
TableInit == NoRun /\ NoDischarge /\ NoSwitch /\ InitOwn /\ NoReq /\ InitTable /\ NoMore

SpecTable == TableInit /\ [][NextTable]_vars

\* One call of smu_ramp_voltage or bias_ramp_voltage.
RampInit == NoRun /\ NoBench /\ InitRamp /\ NoSafe /\ NoPattern /\ NoJoin /\ NoLate

SpecRamp == RampInit /\ [][NextRamp]_vars

\* One call of safe_initialize.
SafeInit == NoRun /\ NoBench /\ NoRamp /\ InitSafe /\ NoPattern /\ NoJoin /\ NoLate

SpecSafe == SafeInit /\ [][NextSafe]_vars

\* A sequence is reset and the strip pattern of its item calculated.
PatternInit == NoRun /\ NoBench /\ NoRamp /\ NoSafe /\ InitPattern /\ NoJoin /\ NoLate

SpecPattern == PatternInit /\ [][NextPattern]_vars

\* The application is shut down.
JoinInit == NoRun /\ NoBench /\ NoRamp /\ NoSafe /\ NoPattern /\ InitJoin /\ NoLate

SpecJoin == JoinInit /\ [][NextJoin]_vars

\* The environment box is polled while its snapshot is read.
SnapInit == NoRun /\ NoBench /\ NoRamp /\ NoSafe /\ NoPattern /\ NoJoin /\ InitSnap /\ NoIns

SpecSnap == SnapInit /\ [][NextSnap]_vars

\* Rows are inserted into the empty data of a new context.
InsertInit == NoRun /\ NoBench /\ NoRamp /\ NoSafe /\ NoPattern /\ NoJoin /\ NoSnap /\ InitInsert

SpecInsert == InsertInit /\ [][NextInsert]_vars


(***************************************************************************)
(* Properties of the orchestrator.                                         *)
(***************************************************************************)
\* C1: every run that entered handle_sequence has called Station.finalize
\* exactly once when it returns, whatever the exit.
C1_StationFinalizeOnce ==
    (pc = "done" /\ entered) => Len(stationFinalize) = 1

\* A run that entered handle_sequence and returned without Station.finalize
\* having been called: the table move of the cleanup raised before it.
C1_FinalizeSkipped ==
    /\ pc = "done"
    /\ entered
    /\ ctrlFinalize = 1
    /\ finalizeError = "safe_recover_table"
    /\ stationFinalize = <<>>
    /\ "instruments" \in opened

\* C4: a strip sub-item whose measurement raised ComplianceError is marked
\* Compliance, and after that it is neither measured again nor is its strip
\* contacted again.
C4_ComplianceAbandoned ==
    tripped # <<>> => (state[tripped[2]] = "Compliance" /\ afterTrip = 0)

\* A run with retries configured in which a sub-item tripped the compliance.
C4_Tripped ==
    /\ tripped # <<>>
    /\ pc = "done"
    /\ remeasure_attempts > 0
    /\ recontact_attempts > 0

\* C5: on one contact a sub-item is measured at most remeasure_attempts + 1
\* times; every measurement followed by another one ended with AnalysisError
\* (so neither ComplianceError nor any other failure is remeasured), and a
\* recontact is requested only after remeasure_attempts + 1 AnalysisErrors.
C5_RetryPolicy ==
    /\ Len(contactMeas) <= remeasure_attempts + 1
    /\ \A k \in 1..(Len(contactMeas) - 1) : contactMeas[k] = "analysis"
    /\ (pc = "strip_item_post" /\ ~result) =>
            /\ Len(contactMeas) = remeasure_attempts + 1
            /\ \A k \in 1..Len(contactMeas) : contactMeas[k] = "analysis"

\* A sub-item whose in-place remeasurements all failed with AnalysisError.
C5_Exhausted ==
    /\ pc = "strip_item_post"
    /\ ~result
    /\ remeasure_attempts > 0
    /\ Len(contactMeas) = remeasure_attempts + 1

\* C6: the k-th contact attempt on a strip moves the table to the nominal
\* position plus the k-th offset of 0, +5, -5, +2, -2 (y and z unchanged).
C6_OffsetsFromNominal ==
    pc \in {"strip_item", "measure", "strip_item_post", "recover"} =>
        \A k \in 1..Len(moves) :
            moves[k] = <<strip_position(CurStrip)[1] + next_x_offset(k - 1),
                         strip_position(CurStrip)[2], strip_position(CurStrip)[3]>>

\* The third contact attempt on a strip went to the nominal position + 0.
C6_ThirdAttempt ==
    /\ pc = "strip_item"
    /\ Len(moves) = 3
    /\ moves[3] = strip_position(CurStrip)

\* The scenario of C7: one sub-item with interval 1, one remeasure and one
\* recontact attempt, the measurement on strip 3 fails twice with
\* AnalysisError and then succeeds; nothing else fails and nobody aborts.
C7_Scenario ==
    /\ NumStrips >= 3
    /\ params.nchildren = 1
    /\ params.remeasure_count = 1
    /\ params.recontact_count = 1
    /\ plan = [item |-> 1, strip |-> 3, kind |-> "analysis", count |-> 2]
    /\ ~abort
    /\ caught = "none"
    /\ finalizeError = "none"

\* A step that is a retry: a recontact or an in-place remeasurement.
C7_RetryStep ==
    \/ pc = "contact" /\ attempt > 0 /\ pc' # pc
    \/ pc = "measure" /\ rtry > 0 /\ contactMeas' # contactMeas

\* The step increments exactly one entry of one counter by one.
C7_OneIncrement ==
    \E s \in Strips : \E i \in Items :
        \/ /\ remeasure_counter' = increment(remeasure_counter, s, i)
           /\ recontact_counter' = recontact_counter
        \/ /\ recontact_counter' = increment(recontact_counter, s, i)
           /\ remeasure_counter' = remeasure_counter

\* The counters at the end of the scenario: one remeasurement of the
\* sub-item, one recontact under the name of the top-level item.
C7_Final ==
    (C7_Scenario /\ pc = "done") =>
        /\ state[1] = "Success"
        /\ state[Parent] = "Success"
        /\ remeasure_counter =
              [s \in Strips |-> [i \in Items |-> IF s = 3 /\ i = 1 THEN 1 ELSE 0]]
        /\ recontact_counter =
              [s \in Strips |-> [i \in Items |-> IF s = 3 /\ i = Parent THEN 1 ELSE 0]]

\* C7 (as the code has it): in the scenario the run ends with
\* remeasure_counter[strip 3][sub-item] = 1, recontact_counter[strip 3][top-level
\* item] = 1 and the items in state Success; every retry increments exactly
\* one counter entry by one, and no other step changes a counter.
C7_Counters ==
    /\ []C7_Final
    /\ [][IF C7_RetryStep THEN C7_OneIncrement
          ELSE UNCHANGED <<remeasure_counter, recontact_counter>>]_vars

\* C7 as stated: the run ends with remeasure_counter[strip 3][item] = 2 and
\* recontact_counter[strip 3][item] = 1, the item in state Success.
C7_AsStated ==
    (C7_Scenario /\ pc = "done") =>
        /\ state[1] = "Success"
        /\ remeasure_counter[3][1] = 2
        /\ recontact_counter[3][1] = 1

\* The scenario of C7 has run to its end.
C7_ScenarioDone ==
    /\ C7_Scenario
    /\ pc = "done"
    /\ remeasure_counter[3][1] > 0
    /\ recontact_counter[3][Parent] > 0

\* C8: when the remeasurements of a sub-item failed on the last contact
\* attempt of a strip, the sub-item is Failed or Pending, never Success.
C8_ExhaustedNotSuccess ==
    (pc = "strip_end" /\ ~result /\ ~abort) => state[CurItem] \in {"Failed", "Pending"}

\* All contact attempts of a strip are used up, the sub-item shows Success.
C8_ExhaustedSuccess ==
    /\ pc = "strip_end"
    /\ ~result
    /\ ~abort
    /\ attempt = recontact_attempts
    /\ recontact_attempts > 0
    /\ state[CurItem] = "Success"

\* Number of invocations of writer w.
Invocations(w) == Cardinality({k \in 1..Len(writerLog) : writerLog[k][2] = w})

\* C9 (as the code has it): a run that fails validation invokes no writer;
\* any other run invokes every writer once for each namespace holding data
\* (not at all without data), in namespace order, up to the first invocation
\* that raises.
C9_WritersPerNamespace ==
    pc = "done" =>
        /\ ~validate_sequence => writerLog = <<>>
        /\ \A w \in Writers : Invocations(w) <= Len(data)
        /\ \A k \in 1..Len(writerLog) :
              writerLog[k] = <<data[((k - 1) \div NumWriters) + 1], ((k - 1) % NumWriters) + 1>>
        /\ (validate_sequence /\ escaped # "writer") =>
              \A w \in Writers : Invocations(w) = Len(data)

\* C9 as stated: every writer is invoked exactly once per run.
C9_AsStated ==
    pc = "done" => \A w \in Writers : Invocations(w) = 1

\* A run that ended with data in two namespaces and all writers served.
C9_TwoNamespaces ==
    /\ pc = "done"
    /\ Len(data) = 2
    /\ escaped = "none"
    /\ Len(writerLog) = 2 * NumWriters

(***************************************************************************)
(* Properties of the station and of the threads.                           *)
(***************************************************************************)
\* C2: whenever CapacitorDischarge.__call__ has returned or raised, the
\* discharge relay is released and the SMU is not sourcing current at the
\* front terminal.
C2_RestoredOnEveryExit ==
    dexit # "none" =>
        /\ ~relay
        /\ ~(smu_output /\ smu_function = "CURRENT" /\ smu_route_terminal = "FRONT")

\* __call__ raised and left the relay asserted with the SMU sourcing current
\* at the front terminal.
C2_LeftDischarging ==
    /\ dexit = "raised"
    /\ relay
    /\ smu_output
    /\ smu_function = "CURRENT"
    /\ smu_route_terminal = "FRONT"

\* The calls C3 speaks of, for the closed set at the time of the call and the
\* wanted set, an empty difference giving no call.
C3_Calls ==
    (IF closed0 \ channels # {} THEN << <<"open", closed0 \ channels>> >> ELSE <<>>)
    \o (IF channels \ closed0 # {} THEN << <<"close", channels \ closed0>> >> ELSE <<>>)

\* C3 (as the code has it): switch_apply issues an open-call with C \ D if
\* and only if C \ D is not empty and a close-call with D \ C if and only if
\* D \ C is not empty, each at most once and the open-call first; when it
\* returns, the closed set equals D (and it raises otherwise).
C3_SwitchDiff ==
    /\ Len(calls) <= Len(C3_Calls)
    /\ calls = SubSeq(C3_Calls, 1, Len(calls))
    /\ sexit = "returned" => (calls = C3_Calls /\ closed_channels = channels)

\* C3 as stated: exactly one open-call with C \ D and exactly one close-call
\* with D \ C, in this order, and the closed set equals D on return.
C3_AsStated ==
    sexit = "returned" =>
        /\ calls = << <<"open", closed0 \ channels>>, <<"close", channels \ closed0>> >>
        /\ closed_channels = channels

\* A call that had channels to open and channels to close has returned.
C3_BothCalls ==
    /\ sexit = "returned"
    /\ Len(calls) = 2
    /\ closed0 \cap channels # {}
    /\ closed_channels = channels

WorkerGone(r) == wstate[request[r].ctl] \in {"exited", "dead"}

\* C11: within one controller the Requests are executed strictly in the order
\* they were submitted by the single worker: a Request starts only when every
\* Request put earlier to the same controller has finished, and two Requests
\* of one controller never execute at the same time.
C11_SubmissionOrder ==
    /\ \A c \in Controllers :
         Cardinality({r \in 1..nreq : request[r].ctl = c /\ request[r].state = "running"}) <= 1
    /\ \A r \in 1..nreq :
         request[r].state \in {"running", "done"} =>
           \A q \in 1..(r - 1) :
             request[q].ctl = request[r].ctl => request[q].state = "done"
    /\ \A i, j \in 1..Len(order) :
         (i < j /\ request[order[i]].ctl = request[order[j]].ctl) => order[i] < order[j]

\* A second Request is executing while a third one waits in the same queue.
C11_TwoInOrder ==
    \E c \in Controllers :
      /\ cur[c] \in 2..nreq
      /\ mailbox[c] # <<>>
      /\ Len(order) >= 2

\* C12 (amended): the callable of a Request is executed at most once, and
\* every get() that does not time out, by the caller or by the worker, any
\* number of times, observes the outcome captured by that one execution.  A
\* Request still queued when the worker thread ends is never executed.
C12_AtMostOnce ==
    /\ \A r \in 1..nreq : request[r].execs <= 1
    /\ \A g \in gets :
         g.seen # "timeout" =>
           /\ request[g.r].execs = 1
           /\ request[g.r].state = "done"
           /\ g.seen = request[g.r].result
    /\ \A r \in 1..nreq : (WorkerGone(r) /\ request[r].state = "queued") => request[r].execs = 0

\* C12 as stated: every submitted Request is executed exactly once by the
\* worker; checked when the worker thread has returned after shutdown().
C12_AsStated ==
    \A r \in 1..nreq : wstate[request[r].ctl] = "exited" => request[r].execs = 1

\* Two calls of get() on one executed Request: the first timed out, the
\* second returned the value.
C12_TwoGets ==
    \E g, h \in gets :
      /\ g.r = h.r
      /\ g.seen = "timeout"
      /\ h.seen = "value"
      /\ request[g.r].execs = 1

\* C13: Request.get(timeout) has exactly three outcomes: RequestTimeout if the
\* Request was not executed when the timeout elapsed, the error of the
\* callable if it was executed and raised, else the value it returned.
C13_GetOutcomes ==
    \A g \in gets :
      g.seen = IF ~g.done THEN "timeout"
               ELSE IF request[g.r].raises THEN "error" ELSE "value"

\* The three outcomes were all observed.
C13_AllOutcomes ==
    /\ \E g \in gets : g.seen = "timeout"
    /\ \E g \in gets : g.seen = "error" /\ g.by = "caller"
    /\ \E g \in gets : g.seen = "value" /\ g.by = "caller"

\* C14: an error raised inside a command queued on the Table or Needle
\* controller is re-raised by get() to the caller that submitted the command;
\* it is never only logged on the worker thread.
C14_ErrorReachesCaller ==
    \A r \in logged :
      request[r].ctl \in {"table", "needle"} =>
        \E g \in gets : g.r = r /\ g.by = "caller" /\ g.seen = "error"

\* The error of a table command was logged by the worker and seen by no
\* caller.
C14_OnlyLogged ==
    \E r \in logged :
      /\ request[r].ctl = "table"
      /\ request[r].result = "error"
      /\ \A g \in gets : g.r = r => g.by = "worker"

\* C15: the worker loops are self-healing: after any exception the worker
\* has closed the resource and retries opening it, and the worker thread of
\* every controller stays alive until shutdown() is called.
C15_SelfHealing ==
    /\ \A c \in Controllers : wstate[c] # "dead"
    /\ \A c \in Controllers : wstate[c] = "exited" => stop[c]
    /\ \A c \in Controllers : wstate[c] = "backoff" => ~link[c]
    /\ caughtOpen = {}

\* The needle worker ended without shutdown(), a Request waits in its queue.
C15_NeedleDead ==
    /\ wstate["needle"] = "dead"
    /\ ~stop["needle"]
    /\ mailbox["needle"] # <<>>

(***************************************************************************)
(* Properties of the Table.                                                *)
(***************************************************************************)
\* Where a movement command sends the table.
Goal(c) == IF c.kind = "rmove" THEN [i \in 1..3 |-> c.at[i] + c.arg[i]] ELSE c.arg

ZOnly(c) == Goal(c)[1] = c.at[1] /\ Goal(c)[2] = c.at[2]

XYOnly(c) == Goal(c)[3] = c.at[3]

\* Sample k of the current wait equals the sample before it.
Stable(k) == samples[k] = samples[k - 1]

\* C16: every blocking wait for a movement to finish has a hard ceiling: it
\* is not still polling once the timeout has elapsed.
C16_WaitCeiling ==
    tpc = "poll" => elapsed <= poll_timeout + 1

\* The table never comes to rest and the wait polls on after the timeout.
C16_NoCeiling ==
    /\ variant = "status"
    /\ jammed
    /\ tpc = "poll"
    /\ elapsed > poll_timeout + 1

\* C17: wait_movement_finished (sqc/controller/table.py) returns after
\* reading exactly the first sample that equals its predecessor, it sleeps
\* the poll interval before every sample after the initial one, and the
\* position-changed callback fires for each polled sample.
C17_CompletionDetection ==
    (variant = "position" /\ samples # <<>>) =>
      /\ sleeps = Len(samples) - 1
      /\ emits = Len(samples) - 1
      /\ \A k \in 2..(Len(samples) - 1) : ~Stable(k)
      /\ (tpc # "poll" /\ texit # "timeout") => (Len(samples) >= 2 /\ Stable(Len(samples)))
      /\ (tpc = "poll" /\ Len(samples) >= 2) => ~Stable(Len(samples))

\* A wait returned on the fourth sample: start, on the way, target, target.
C17_FourSamples ==
    /\ variant = "position"
    /\ tpc = "phase2"
    /\ Len(samples) = 4
    /\ samples[4] = samples[3]
    /\ samples[3] # samples[2]
    /\ samples[2] # samples[1]

\* C18: safe_move_absolute issues exactly three movement commands in order,
\* a Z-only retract by the safety offset, an X/Y-only move at the retracted
\* height and a Z-only move, each started when the table is at rest; no
\* command changes X/Y and Z together.
C18_ThreePhases ==
    op = "safe_move_absolute" =>
      /\ \A k \in 1..Len(cmds) : ~cmds[k].moving /\ (ZOnly(cmds[k]) \/ XYOnly(cmds[k]))
      /\ texit = "returned" =>
           /\ Len(cmds) = 3
           /\ cmds[1].kind = "rmove" /\ cmds[1].arg = <<0, 0, -safe_z_offset>>
           /\ cmds[2].kind = "move" /\ cmds[2].arg = <<dest[1], dest[2], cmds[2].at[3]>>
           /\ cmds[3].kind = "rmove" /\ cmds[3].arg[1] = 0 /\ cmds[3].arg[2] = 0

\* A safe move that changed X and Z has returned.
C18_MovedXAndZ ==
    /\ op = "safe_move_absolute"
    /\ texit = "returned"
    /\ cmds[1].at[1] # dest[1]
    /\ cmds[1].at[3] # dest[3]

\* C19: after safe_move_absolute((x, y, z)) the table is at exactly
\* (x, y, z), for every starting position.
C19_ArrivesAtTarget ==
    (op = "safe_move_absolute" /\ texit = "returned") => driver_pos = dest

\* A safe move from below the safety offset returned at another height.
C19_WrongHeight ==
    /\ op = "safe_move_absolute"
    /\ texit = "returned"
    /\ cmds[1].at[3] < safe_z_offset
    /\ driver_pos[3] # dest[3]

\* C20: when the calibration ran to completion without abort, requestCalibrate
\* fails if one of the axes X, Y, Z does not report calibrated.
C20_CalibrationVerified ==
    (/\ op = "requestCalibrate"
     /\ tpc = "done"
     /\ ~skipped
     /\ \E a \in Axes : caldone[a] # 3) => texit = "raised"

\* The calibration returned normally with the Z axis not calibrated.
C20_ZNotCalibrated ==
    /\ op = "requestCalibrate"
    /\ tpc = "done"
    /\ ~skipped
    /\ caldone["z"] # 3
    /\ texit = "returned"

(***************************************************************************)
(* C21: requestCalibrate on the Table calls calibrate Z, Y, X and then     *)
(* range measure X, Y, Z, in this order and nothing in between, and every  *)
(* progress emission (k, 6) is made when exactly the first k steps have    *)
(* been called and have returned; a request that is neither aborted nor    *)
(* fails in a step emits (0, 6) .. (6, 6).                                 *)
(***************************************************************************)
C21_StepOrder ==
    op = "requestCalibrate" =>
        /\ Len(called) <= 7
        /\ \A k \in 1..Len(called) :
              called[k] = <<"calibrate_z", "calibrate_y", "calibrate_x",
                            "range_measure_x", "range_measure_y", "range_measure_z",
                            "is_calibrated">>[k]
        /\ \A e \in 1..Len(progressChanged) :
              /\ progressChanged[e][2] = 6
              /\ progressChanged[e][1] = progressChanged[e][3]
              /\ e > 1 => progressChanged[e][1] = progressChanged[e - 1][1] + 1
        /\ Len(called) = 7 => progressChanged = [k \in 1..7 |-> <<k - 1, 6, k - 1>>]

\* A calibration that ran to its end, with its seven emissions.
C21_AllSix ==
    /\ op = "requestCalibrate"
    /\ tpc = "done"
    /\ texit = "returned"
    /\ Len(progressChanged) = 7
    /\ progressChanged[7] = <<6, 6, 6>>

\* The calibration procedures with an abort flag.
Calibrating == op \in {"requestCalibrate", "calibrate"}

(***************************************************************************)
(* C22: in requestCalibrate of the Table and calibrate of the needles,     *)
(* while abortRequested is set no step is called and the verification is   *)
(* not made; when the procedure has ended, completed, aborted or failed,   *)
(* abortRequested is cleared and movementFinished was emitted once, and    *)
(* it is not emitted before the end.                                       *)
(***************************************************************************)
C22_AbortContract ==
    /\ [][(Calibrating /\ abortRequested) => called' = called]_vars
    /\ [](Calibrating =>
            /\ tpc = "done" => (~abortRequested /\ movementFinished = 1)
            /\ tpc # "done" => movementFinished = 0)

\* The calibration of the needles was aborted after its first step.
C22_AbortedAfterOne ==
    /\ op = "calibrate"
    /\ tpc = "done"
    /\ skipped
    /\ called = <<"needles_calibrate">>
    /\ movementFinished = 1

(***************************************************************************)
(* C23: in smu_ramp_voltage and bias_ramp_voltage, called on a source      *)
(* whose range covers its level, every level is applied with a configured  *)
(* range of at least its magnitude; when the magnitude does not decrease   *)
(* the range is abs(target) from before the first step on, when it         *)
(* decreases the range is left alone during the steps, and a ramp that     *)
(* returns leaves the level at the target and the range at abs(target).    *)
(***************************************************************************)
C23_NoOverRange ==
    /\ \A k \in 1..Len(applied) : abs(applied[k][1]) <= applied[k][2]
    /\ abs(voltage_level) <= voltage_range
    /\ rpc = "ramp" =>
          voltage_range = IF abs(voltage_end) >= abs(voltage_begin)
                          THEN abs(voltage_end) ELSE range0
    /\ rexit = "returned" => (voltage_level = voltage_end /\ voltage_range = abs(voltage_end))

\* A ramp through zero to a higher magnitude has returned.
C23_RampedUp ==
    /\ rexit = "returned"
    /\ voltage_begin < 0
    /\ voltage_end = MaxVolt
    /\ range0 < MaxVolt
    /\ Len(applied) >= 3

\* The place of a step in the order of safe_initialize: identity check,
\* sources to zero and off, matrices released, default configuration,
\* discharge, validation of the environment.
StepRank(name) ==
    CASE name = "check_identities" -> 1
      [] name \in {"safe_recover_box", "safe_recover_smu", "safe_recover_bias_smu"} -> 2
      [] name \in {"hv_switch_release", "lv_switch_release"} -> 3
      [] name \in {"safe_initialize_smu", "safe_initialize_bias_smu",
                   "safe_initialize_lcr", "safe_initialize_elm"} -> 4
      [] name = "safe_discharge" -> 5
      [] name = "box_validate_state" -> 6

(***************************************************************************)
(* C24: safe_initialize calls each of its steps at most once and in the    *)
(* order identity check, sources safe, matrices released, default          *)
(* configuration, discharge, validation of the environment; it returns     *)
(* only after all of them, the validation last, and once a step has raised *)
(* no further step is called.                                              *)
(***************************************************************************)
C24_FixedOrderFailFast ==
    /\ [](/\ \A j, k \in 1..Len(ran) :
                j < k => (ran[j] # ran[k] /\ StepRank(ran[j]) <= StepRank(ran[k]))
          /\ Len(ran) > 0 => ran[1] = "check_identities"
          /\ iexit = "returned" =>
                (Len(ran) = 12 /\ ran[12] = "box_validate_state"
                 /\ ~instr.smu /\ ~instr.bias /\ ~instr.hv /\ ~instr.lv /\ ~instr.door))
    /\ [][iexit = "raised" => ran' = ran]_vars

\* A relay of the LV matrix stays closed: safe_initialize was left there.
C24_StoppedAtSwitch ==
    /\ iexit = "raised"
    /\ instr.lv
    /\ Len(ran) = 6
    /\ ran[6] = "lv_switch_release"

\* The state changes of the claimed life cycle of a sequence item.
ClaimedTransitions ==
    {<<"Pending", "Active">>, <<"Active", "Halted">>, <<"Halted", "Active">>,
     <<"Active", "Success">>, <<"Active", "Aborted">>, <<"Active", "Compliance">>,
     <<"Active", "Failed">>}

\* The item changes state at the suspend or abort check point it has reached
\* before it was started or after it has ended.
CheckPointTransitions ==
    {<<"Pending", "Halted">>, <<"Aborted", "Halted">>, <<"Pending", "Aborted">>,
     <<"Success", "Aborted">>, <<"Compliance", "Aborted">>, <<"Success", "Active">>,
     <<"Ignored", "Aborted">>}

(***************************************************************************)
(* C25, as amended: from the start of handle_sequence on, an item changes  *)
(* state only along Pending -> Active -> {Success, Aborted, Compliance,    *)
(* Failed} and Active -> Halted -> Active, or at a check point (to Halted  *)
(* from Pending or Aborted, to Aborted from Pending, Ignored, Success or   *)
(* Compliance), or, a sub-item, to Pending or Ignored when the next strip  *)
(* is begun and from Success to Active on a recontact; Halted is left only *)
(* to Active.                                                              *)
(***************************************************************************)
C25_Transitions ==
    [][pc # "idle" =>
        \A i \in Items :
            state'[i] # state[i] =>
                \/ <<state[i], state'[i]>> \in ClaimedTransitions \cup CheckPointTransitions
                \/ /\ i # Parent
                   /\ pc \in {"strip_begin", "strip_resumed"}
                   /\ state'[i] \in {"Pending", "Ignored"}]_vars

\* C25 as stated: only the claimed life cycle.
C25_AsStated ==
    [][pc # "idle" =>
        \A i \in Items :
            state'[i] # state[i] => <<state[i], state'[i]>> \in ClaimedTransitions]_vars

\* The item was halted at the check point before its start, while Pending.
C25_HaltedBeforeStart ==
    /\ pc = "item_suspended"
    /\ state[Parent] = "Halted"
    /\ ~abort

\* The orchestrator is at a suspend check point: before an item, or before
\* a strip of the pattern.
AtSuspendCheck ==
    \/ pc = "item_begin"
    \/ pc = "strip_begin" /\ strip <= Len(selected_strips)

(***************************************************************************)
(* C28: with the suspend flag set the orchestrator enters the wait at the  *)
(* next suspend check point, the item Halted, and stays there while the    *)
(* flag is set and no abort is requested; it leaves the wait with the item *)
(* Active, and does so once the flag is found cleared; when abort is       *)
(* requested during the wait the run goes on to its end, through finalize. *)
(***************************************************************************)
C28_SuspendNeverDeadlocks ==
    /\ [](pc \in Suspended => state[Parent] = "Halted")
    /\ [][(AtSuspendCheck /\ suspend /\ pc' # pc) => pc' \in Suspended]_vars
    /\ [][(pc \in Suspended /\ suspend /\ ~abort) => pc' = pc]_vars
    /\ [][(pc \in Suspended /\ pc' # pc) =>
            (pc' \in {"item_resumed", "strip_resumed"} /\ state'[Parent] = "Active")]_vars
    /\ (pc \in Suspended /\ ~suspend) ~> (pc \notin Suspended \/ suspend)
    /\ (pc \in Suspended /\ abort) ~> (pc = "done" /\ ctrlFinalize = 1)

\* The wait was left on an abort request, the suspend flag still set.
C28_LeftOnAbort ==
    /\ pc \in {"item_resumed", "strip_resumed"}
    /\ suspend
    /\ abort
    /\ state[Parent] = "Active"

\* handle_abort has seen the abort request at one of the check points around
\* the sub-item (lines 443, 448) and has left the loop over the sub-items.
AbortSeen ==
    /\ pc = "recover"
    /\ abort
    /\ sidx <= Len(strip_items(CurStrip))
    /\ state[CurItem] = "Aborted"

(***************************************************************************)
(* C29: once an abort request was seen at a check point, no further        *)
(* contact attempt is made on the strip (no table move onto the sensor),   *)
(* and no further strip is begun.                                          *)
(***************************************************************************)
C29_AbortHonored ==
    [][/\ AbortSeen => pc' # "contact"
       /\ (pc = "strip_end" /\ abort) => pc' # "strip_begin"]_vars

\* The strip was contacted again although a sub-item had been marked Aborted
\* on the contact before.
C29_ContactAfterAbort ==
    /\ pc = "strip_item"
    /\ abort
    /\ attempt > 0
    /\ Len(moves) = attempt + 1
    /\ \E c \in Children : state[c] = "Aborted"

(***************************************************************************)
(* C26: after reset_sequence an item is Ignored if and only if it is       *)
(* disabled or is the sub-item of a disabled item, and Pending otherwise.  *)
(***************************************************************************)
C26_ResetStates ==
    ppc # "start" =>
        \A i \in Items :
            /\ item_state[i] \in {"Ignored", "Pending"}
            /\ item_state[i] = "Ignored" <=>
                   (~enabled[i] \/ (i \in Children /\ ~enabled[Parent]))

\* An enabled sub-item of a disabled item was reset.
C26_ChildOfDisabled ==
    /\ ppc = "reset"
    /\ ~enabled[Parent]
    /\ enabled[1]
    /\ item_state[1] = "Ignored"
    /\ item_state[Parent] = "Ignored"

\* The strip k lies in one of the ranges of the expression.
InSelectedRange(k) ==
    \E r \in 1..Len(strips_expr) : strips_expr[r][1] <= k /\ k <= strips_expr[r][2]

\* The sub-item c is in the entry of strip k of the pattern.
Attached(c, k) ==
    \E e \in 1..Len(pattern) :
        /\ pattern[e][1] = k
        /\ \E j \in 1..Len(pattern[e][2]) : pattern[e][2][j] = c

(***************************************************************************)
(* C27: calculate_strip_pattern attaches sub-item c to the strip with      *)
(* 0-based padfile index i if and only if c is enabled, the strip lies in  *)
(* the selected range and i % interval(c) = 0; the strips of the pattern   *)
(* are in padfile order and the sub-items of a strip in declaration order. *)
(***************************************************************************)
C27_StripPattern ==
    ppc = "done" =>
        /\ \A k \in Strips : \A c \in Children :
                Attached(c, k) <=>
                    (enabled[c] /\ InSelectedRange(k) /\ (k - 1) % intervals[c] = 0)
        /\ \A e \in 1..Len(pattern) :
                /\ e > 1 => pattern[e - 1][1] < pattern[e][1]
                /\ pattern[e][2] # <<>>
                /\ \A j \in 2..Len(pattern[e][2]) : pattern[e][2][j - 1] < pattern[e][2][j]

\* Interval 3 over all strips: the pads with index 0 and 3.
C27_EveryThird ==
    /\ ppc = "done"
    /\ strips_expr = <<<<1, NumStrips>>>>
    /\ enabled[1]
    /\ ~enabled[2]
    /\ intervals[1] = 3
    /\ Len(pattern) >= 2
    /\ pattern[1] = <<1, <<1>>>>
    /\ pattern[2] = <<4, <<1>>>>

(***************************************************************************)
(* C30: SequenceController.shutdown does not raise, and it has returned    *)
(* only when the orchestrator thread, if one was started, has ended;       *)
(* TableController.shutdown has returned only when the stop flag is set    *)
(* and the worker thread has ended.                                        *)
(***************************************************************************)
C30_ShutdownJoins ==
    /\ jshut # "raised"
    /\ jshut = "returned" => (jabort /\ jrun \in {"not_started", "terminated"})
    /\ cshut = "returned" => (cstop /\ cworker = "exited")

\* shutdown called join on None: the run thread had cleared _thread between
\* the test and the call.
C30_JoinOnNone ==
    /\ jshut = "raised"
    /\ ~sthread
    /\ jrun \in {"returning", "terminated"}

(***************************************************************************)
(* C31: snapshot reads the cache without hardware I/O and without waiting  *)
(* for the worker's I/O (the lock is held only inside reset, the slot and  *)
(* snapshot itself, never across get_data or the back-off sleep); what it  *)
(* copies is the cache as a whole refresh left it; and a change made to    *)
(* the returned dictionary leaves the cache as it was.                     *)
(***************************************************************************)
Whole(d) == \A j, k \in Keys : d[j] = d[k]

C31_SnapshotStates ==
    /\ slock = "worker" => wkpc = "reset"
    /\ slock = "slot" => gpc = "update"
    /\ slock = "caller" => rdpc = "copy"
    /\ rdpc = "copy" => Whole(heap[DataObj])
    /\ (rdpc = "copy" /\ rkeys = {}) => heap[CopyObj] = heap[DataObj]
    /\ rdpc = "returned" => (sref # DataObj /\ Whole(heap[sref]))

C31_Snapshot ==
    /\ []C31_SnapshotStates
    /\ [][(rdpc = "returned" /\ rdpc' = "changed") => heap'[DataObj] = heap[DataObj]]_vars

\* The caller changed the copy of a refreshed cache while the worker was
\* asking the hardware again.
C31_CopyChanged ==
    /\ rdpc = "changed"
    /\ \E k \in Keys : heap[sref][k] = -1
    /\ \E k \in Keys : heap[sref][k] > 0
    /\ Whole(heap[DataObj])
    /\ heap[DataObj][1] > 0
    /\ wkpc = "get_data"

(***************************************************************************)
(* C32: once a measurement has raised an exception other than              *)
(* ComplianceError, AnalysisError and AbortRequested, its item is Failed,  *)
(* the exception has been given to handle_exception, the orchestrator is   *)
(* in or past controller.finalize, and no item state, counter, row or      *)
(* table contact changes any more: nothing is measured again.              *)
(***************************************************************************)
AfterHardFault == {"finalize", "serialize", "done"}

C32_HardFaultStates ==
    caught = "hard" =>
        /\ plan.kind = "hard"
        /\ state[plan.item] = "Failed"
        /\ pc \in AfterHardFault
        /\ \A s \in Strips : \A i \in Items :
              remeasure_counter[s][i] = 0 /\ recontact_counter[s][i] = 0
        /\ pc = "done" => ctrlFinalize = 1

\* The measurement of the current sub-item raised a hard fault.
HardFaultRaised == \E k \in 1..Len(contactMeas) : contactMeas[k] = "hard"

C32_HardFaultEndsRun ==
    /\ []C32_HardFaultStates
    /\ [](HardFaultRaised => (caught = "hard" /\ contactMeas[Len(contactMeas)] = "hard"))
    /\ [][caught = "hard" =>
            /\ state' = state
            /\ data' = data
            /\ remeasure_counter' = remeasure_counter
            /\ recontact_counter' = recontact_counter
            /\ caught' = caught
            /\ pc' \in AfterHardFault]_vars

\* A sub-item raised a hard fault with remeasurements and recontacts allowed,
\* and the run has ended.
C32_SubItemFailed ==
    /\ caught = "hard"
    /\ pc = "done"
    /\ plan.item # Parent
    /\ remeasure_attempts > 0
    /\ recontact_attempts > 0
    /\ state[plan.item] = "Failed"
    /\ ctrlFinalize = 1

(***************************************************************************)
(* C33: a run whose sequence fails validation (no padfile, no output path, *)
(* no operator name, a bad strips expression, a sub-item interval < 1,     *)
(* invalid parameters) never enters handle_sequence: no resource is        *)
(* opened, no hook or measurement runs, no table move is made, nothing is  *)
(* finalized or written, and the exception leaves __call__.                *)
(***************************************************************************)
Invalid ==
    \/ ~params.padfile
    \/ ~params.output_path
    \/ ~params.operator_name
    \/ params.defect # "none"

C33_ValidationFirst ==
    Invalid =>
        /\ pc \in {"idle", "done"}
        /\ ~entered
        /\ opened = {}
        /\ ~contacted
        /\ moves = <<>>
        /\ hidx = 0
        /\ nmeas = 0
        /\ \A i \in Items : state[i] \in {"Pending", "Ignored"}
        /\ ctrlFinalize = 0
        /\ stationFinalize = <<>>
        /\ writerLog = <<>>
        /\ pc = "done" => escaped \in {"ValueError", "KeyError"}

\* A sequence with a sub-item interval below 1 was rejected after its items
\* had been reset.
C33_IntervalRejected ==
    /\ pc = "done"
    /\ params.padfile /\ params.output_path /\ params.operator_name
    /\ params.defect = "interval"
    /\ escaped = "KeyError"
    /\ opened = {}
    /\ ~entered

(***************************************************************************)
(* C34: the table never stays at contact height after a contact try: it    *)
(* is down again before the next try, before the next strip and before     *)
(* the item ends, and when the run has ended it is down unless the         *)
(* retracting move of finalize itself raised, whatever the measurements    *)
(* of the try did.                                                         *)
(***************************************************************************)
C34_RetractAfterTry ==
    /\ pc \in {"contact", "strip_begin", "strip_resumed", "strip_suspended",
               "strip_end", "item_finish", "item_after", "after_sequence"} => ~contacted
    /\ pc = "finalize" => ctrlFinalize = 0
    /\ pc \in {"serialize", "done"} /\ contacted =>
          /\ finalizeError = "safe_recover_table"
          /\ ctrlFinalize = 1

\* A sub-item raised a hard fault on a contacted strip, and the run ended
\* with the table retracted by finalize.
C34_RetractedByFinalize ==
    /\ pc = "done"
    /\ caught = "hard"
    /\ plan.item # Parent
    /\ ~contacted
    /\ finalizeError = "none"
    /\ stationFinalize # <<>>

(***************************************************************************)
(* C35: handle_strip_item leaves with a return or with the exception of    *)
(* the measurement, so a compliance trip of a sub-item never ends the run  *)
(* with an exception of another kind.                                      *)
(***************************************************************************)
C35_ComplianceConfined ==
    /\ caught # "UnboundLocalError"
    /\ (tripped # <<>> /\ caught = "none" /\ ~abort /\ pc = "done") =>
          state[Parent] = "Success"

\* A compliance trip on the first strip ended a run that had strips left,
\* with UnboundLocalError and without an abort request.
C35_RunEndedByTrip ==
    /\ pc = "done"
    /\ tripped # <<>>
    /\ tripped[1] = selected_strips[1]
    /\ Len(selected_strips) > 1
    /\ state[tripped[2]] = "Compliance"
    /\ caught = "UnboundLocalError"
    /\ ~abort

(***************************************************************************)
(* C36: a Request of the EnvironController whose caller got RequestTimeout *)
(* is not cancelled: it is still in the queue as long as the worker has    *)
(* not taken it, and the worker executes it when it takes it, once.        *)
(***************************************************************************)
TimedOut(r) == \E g \in gets : g.r = r /\ g.by = "caller" /\ g.seen = "timeout"

InMailbox(r) == \E k \in 1..Len(mailbox["environ"]) : mailbox["environ"][k] = r

C36_NotCancelled ==
    \A r \in Requests :
        TimedOut(r) =>
            /\ request[r].execs <= 1
            /\ InMailbox(r) <=> request[r].execs = 0
            /\ InMailbox(r) <=> request[r].state = "queued"

\* The caller gave up while the link was down; the worker came back and
\* executed the request.
C36_ExecutedAfterTimeout ==
    \E r \in Requests :
        /\ TimedOut(r)
        /\ request[r].state = "done"
        /\ request[r].execs = 1
        /\ faults > 0

(***************************************************************************)
(* C37: abortRequested, once set, is cleared only by the finally clause of *)
(* a calibration request, together with the emission of movementFinished;  *)
(* a move neither clears it nor is changed by it; and a calibration that   *)
(* finds it set calls no step, emits no progress and raises no error, also *)
(* when the table is not calibrated.                                       *)
(***************************************************************************)
C37_StickyAbort ==
    /\ [][(abortRequested /\ ~abortRequested') =>
            /\ op \in {"requestCalibrate", "calibrate"}
            /\ tpc' = "done"
            /\ movementFinished' = movementFinished + 1]_vars
    /\ [][(abortRequested /\ op \in {"requestCalibrate", "calibrate"}) =>
            /\ called' = called
            /\ progressChanged' = progressChanged
            /\ texit' \in {"none", "returned"}]_vars
    /\ [](op = "safe_move_absolute" => (called = <<>> /\ movementFinished = 0))

\* The flag was set while the table moved; the move returned, and the
\* calibration requested next did nothing.
C37_CalibrationSkipped ==
    /\ op = "requestCalibrate"
    /\ cmds = <<>>
    /\ dest # <<0, 0, 0>>
    /\ tpc = "done"
    /\ texit = "returned"
    /\ called = <<>>
    /\ progressChanged = <<>>
    /\ movementFinished = 1
    /\ ~abortRequested

(***************************************************************************)
(* C38: a discharge that times out is no error.  CapacitorDischarge        *)
(* returns False exactly when the capacitor was still charged at the       *)
(* timeout, having restored the source and released the relay as after a   *)
(* success, and the caller of safe_discharge goes on whenever              *)
(* CapacitorDischarge returned, whatever it returned.                      *)
(***************************************************************************)
C38_TimeoutNoError ==
    /\ dexit = "returned" =>
          /\ dpc \in {"done", "proceed"}
          /\ success <=> check_discharged_state(charge)
          /\ ~success => discharge_timeout(polls)
          /\ ~relay /\ ~smu_output
          /\ smu_function = "VOLTAGE" /\ smu_route_terminal = "REAR"
    /\ dpc = "proceed" => dexit = "returned"
    /\ dpc = "raised" => dexit = "raised"
    /\ (dpc = "restore" /\ ~success) => discharge_timeout(polls)

\* The capacitor kept its charge until the timeout and the caller went on.
C38_ProceededCharged ==
    /\ dpc = "proceed"
    /\ ~success
    /\ charge > 0
    /\ discharge_timeout(polls)
    /\ ~relay

(***************************************************************************)
(* C39: within a run the remeasure counter of a strip and sub-item is at   *)
(* most remeasure_attempts * (recontact_attempts + 1), the recontact       *)
(* counter of a strip and the top-level item at most recontact_attempts;   *)
(* remeasurements are counted for sub-items only and recontacts for the    *)
(* top-level item only, so with both parameters 0 nothing is counted.      *)
(***************************************************************************)
C39_CountersBounded ==
    \A s \in Strips :
        /\ \A i \in Children :
              /\ remeasure_counter[s][i] <= remeasure_attempts * (recontact_attempts + 1)
              /\ recontact_counter[s][i] = 0
        /\ recontact_counter[s][Parent] <= recontact_attempts
        /\ remeasure_counter[s][Parent] = 0

\* A sub-item that failed on every try of every contact: both counters of
\* its strip have reached their bounds at the end of the run.
C39_BothAtBound ==
    /\ pc = "done"
    /\ remeasure_attempts > 0
    /\ recontact_attempts > 1
    /\ \E s \in Strips : \E i \in Children :
          /\ remeasure_counter[s][i] = remeasure_attempts * (recontact_attempts + 1)
          /\ recontact_counter[s][Parent] = recontact_attempts

\* The rows of sortkey k stored for the data key n.
RowsOf(d, n, k) ==
    IF n \in DOMAIN d
    THEN {d[n][i] : i \in {j \in DOMAIN d[n] : d[n][j].sortkey = k}}
    ELSE {}

(***************************************************************************)
(* C40: after any insert_data calls the row list of every (namespace,      *)
(* type, name) is strictly ascending by the sortkey, so it has one row per *)
(* sortkey value at most, and the row of a sortkey value is the one given  *)
(* last for it; a call changes the rows of no other key and of no other    *)
(* sortkey value.                                                          *)
(***************************************************************************)
C40_RowStates ==
    \A n \in DataKeys :
        /\ n \in DOMAIN cdata =>
              \A i, j \in DOMAIN cdata[n] :
                  i < j => cdata[n][i].sortkey < cdata[n][j].sortkey
        /\ \A k \in SortKeys :
              RowsOf(cdata, n, k) =
                  IF latest[n][k] = 0 THEN {}
                  ELSE {[sortkey |-> k, timestamp |-> latest[n][k]]}

C40_InsertData ==
    /\ []C40_RowStates
    /\ [][\E n \in DataKeys, k \in SortKeys :
              \A m \in DataKeys, j \in SortKeys :
                  <<m, j>> # <<n, k>> => RowsOf(cdata', m, j) = RowsOf(cdata, m, j)]_vars

\* Three rows were given for one key, the last one for a smaller sortkey
\* value than the second one: the list holds two rows, the first row given
\* has been replaced, and the other key has no rows.
C40_RowReplaced ==
    /\ ninserts = 3
    /\ DOMAIN cdata = {1}
    /\ Len(cdata[1]) = 2
    /\ cdata[1][1].timestamp = 3
    /\ cdata[1][2].timestamp = 2

====
